---------------------------- MODULE Spec2Model ----------------------------
(***************************************************************************)
(* Policy iteration over the joint state space of an agent, an opponent    *)
(* and a target on a grid with obstacles (package grid_agent): the valid   *)
(* state space, the sequential TrainManager and the parallel one with its  *)
(* worker processes, events and semaphore.                                 *)
(*                                                                         *)
(* Numbers.  The program computes with floats.  The model computes with    *)
(* exact fixed-point numbers: a value v is the integer v * Unit.  Rewards  *)
(* are hundredths, probabilities are multiples of 1/PDen and the discount  *)
(* is a multiple of 1/GDen, so that Unit = 100 * (PDen*GDen)^Levels makes  *)
(* every product and sum of at most Levels nested Bellman updates an       *)
(* integer (ExactArithmetic is checked).  Rounding is not modelled.        *)
(***************************************************************************)
EXTENDS Integers, Sequences, FiniteSets, TLC

\* Op(e), with e evaluated once and Op applied to its value: a statement whose
\* result the statements after it read
Eval(Op(_), e) == CHOOSE y \in { Op(r) : r \in {e} } : TRUE

(***************************************************************************)
(* Bounds of the model.                                                    *)
(***************************************************************************)
MaxIterBound == 2
MaxProcesses == 3
MaxSpaceSize == 12
MaxWorkers == 5
MaxCells == 7
MaxLookups == 2
MaxSettings == 4
MaxEntry == 4

(***************************************************************************)
(* Number representation.                                                  *)
(***************************************************************************)
\* probabilities are quarters, the discount is in halves, rewards are hundredths
PDen == 2 * 2
GDen == 1 + 1
RDen == 10 * 10
Levels == MaxIterBound + 1

RECURSIVE Pow(_, _)
Pow(b, e) ==
    IF e = 0 THEN 1 ELSE b * Pow(b, e - 1)

Unit == RDen * Pow(PDen * GDen, Levels)

\* math.inf and -math.inf: beyond every value the bounded runs can reach
Inf == 1073741824
NegInf == -1073741824

(***************************************************************************)
(* simple_data.py: Action, Vec2D, Obstacle, MapSize                        *)
(***************************************************************************)
UP == 0
RIGHT == 1
DOWN == 2
LEFT == 3
MAX_EXCLUSIVE == LEFT + 1
Actions == 0 .. (MAX_EXCLUSIVE - 1)

Vec2D(x, y) == [x |-> x, y |-> y]

move(pos, action) ==
    CASE action = UP    -> [pos EXCEPT !.y = @ + 1]
      [] action = RIGHT -> [pos EXCEPT !.x = @ + 1]
      [] action = DOWN  -> [pos EXCEPT !.y = @ - 1]
      [] action = LEFT  -> [pos EXCEPT !.x = @ - 1]

undo(pos, action) ==
    CASE action = UP    -> [pos EXCEPT !.y = @ - 1]
      [] action = RIGHT -> [pos EXCEPT !.x = @ - 1]
      [] action = DOWN  -> [pos EXCEPT !.y = @ + 1]
      [] action = LEFT  -> [pos EXCEPT !.x = @ + 1]

Obstacle(ox, oy, ex, ey) == [origin |-> Vec2D(ox, oy), extent |-> Vec2D(ex, ey)]

is_inside(obstacle, pos) ==
    /\ pos.x >= obstacle.origin.x
    /\ pos.x < obstacle.origin.x + obstacle.extent.x
    /\ pos.y >= obstacle.origin.y
    /\ pos.y < obstacle.origin.y + obstacle.extent.y

is_inside_bounds(obstacle, map_size) ==
    /\ obstacle.origin.x > -1
    /\ obstacle.origin.x + obstacle.extent.x <= map_size.x
    /\ obstacle.origin.y > -1
    /\ obstacle.origin.y + obstacle.extent.y <= map_size.y

MapSize(N, M) ==
    [N |-> N, M |-> M, NM |-> N * M, N2M |-> N * M * N, N2M2 |-> N * M * N * M,
     N3M2 |-> N * M * N * M * N, N3M3 |-> N * M * N * M * N * M]

(***************************************************************************)
(* state.py: State                                                         *)
(***************************************************************************)
State(a, o, t) == [agent_pos |-> a, opponent_pos |-> o, target_pos |-> t]

State0 == State(Vec2D(0, 0), Vec2D(0, 0), Vec2D(0, 0))

\* An index that takes every row to be N cells wide and N cells apart
to_index_square(state, ms) ==
    state.agent_pos.x + state.agent_pos.y * ms.N
    + state.opponent_pos.x * ms.N * ms.N + state.opponent_pos.y * ms.N * ms.N * ms.N
    + state.target_pos.x * ms.N2M2 + state.target_pos.y * ms.N3M2

to_index(state, ms) ==
    state.agent_pos.x + state.agent_pos.y * ms.N
    + state.opponent_pos.x * ms.NM + state.opponent_pos.y * ms.N2M
    + state.target_pos.x * ms.N2M2 + state.target_pos.y * ms.N3M2

from_index(index, ms) ==
    State(Vec2D(index % ms.N, (index % ms.NM) \div ms.N),
          Vec2D((index % ms.N2M) \div ms.NM, (index % ms.N2M2) \div ms.N2M),
          Vec2D((index % ms.N3M2) \div ms.N2M2, index \div ms.N3M2))

\* State.__next_pos: the next position and whether the enumeration goes on
next_pos(pos, ms) ==
    IF pos.x + 1 < ms.N THEN [pos |-> Vec2D(pos.x + 1, pos.y), more |-> TRUE]
    ELSE IF pos.y + 1 < ms.M THEN [pos |-> Vec2D(0, pos.y + 1), more |-> TRUE]
    ELSE [pos |-> Vec2D(0, 0), more |-> FALSE]

next_state(state, ms) ==
    LET a == next_pos(state.agent_pos, ms)
        o == next_pos(state.opponent_pos, ms)
        t == next_pos(state.target_pos, ms)
    IN  IF a.more THEN [state |-> [state EXCEPT !.agent_pos = a.pos], more |-> TRUE]
        ELSE IF o.more
             THEN [state |-> [state EXCEPT !.agent_pos = a.pos, !.opponent_pos = o.pos],
                   more |-> TRUE]
        ELSE [state |-> State(a.pos, o.pos, t.pos), more |-> t.more]

\* State.move_checking_bounds: the moved position (undone when it leaves the map)
move_checking_bounds(pos, action, ms) ==
    LET moved == move(pos, action)
        is_within_bounds ==
            CASE action = UP    -> moved.y < ms.M
              [] action = RIGHT -> moved.x < ms.N
              [] action = DOWN  -> moved.y > -1
              [] action = LEFT  -> moved.x > -1
    IN  [pos |-> IF is_within_bounds THEN moved ELSE undo(moved, action),
         is_within_bounds |-> is_within_bounds]

(***************************************************************************)
(* valid_state_space.py: ValidStateSpace                                   *)
(***************************************************************************)
is_state_valid(state, obstacles) ==
    /\ state.target_pos # state.opponent_pos
    /\ \A i \in 1 .. Len(obstacles) :
          /\ ~is_inside(obstacles[i], state.agent_pos)
          /\ ~is_inside(obstacles[i], state.opponent_pos)
          /\ ~is_inside(obstacles[i], state.target_pos)

\* one pass of the loop of ValidStateSpace.__init__ that fills index_list: r is
\* what state.next_state(map_size) left and returned
index_list_pass(acc, r, obstacles) ==
    IF ~r.more THEN [acc EXCEPT !.state = r.state, !.more = FALSE]
    ELSE [state |-> r.state,
          state_index |-> acc.state_index + 1,
          index_list |-> IF is_state_valid(r.state, obstacles)
                         THEN Append(acc.index_list, acc.state_index + 1)
                         ELSE acc.index_list,
          more |-> TRUE]

\* at most n passes of that loop, which ends when next_state returns False
RECURSIVE index_list_loop(_, _, _, _)
index_list_loop(acc, n, ms, obstacles) ==
    IF ~acc.more THEN acc
    ELSE IF n = 1
         THEN index_list_pass(acc, next_state(acc.state, ms), obstacles)
         ELSE index_list_loop(index_list_loop(acc, n \div 2, ms, obstacles),
                              n - (n \div 2), ms, obstacles)

\* the index_list ValidStateSpace.__init__ builds: the enumeration has N3M3 states
index_list(ms, obstacles) ==
    index_list_loop([state |-> State0, state_index |-> 0, index_list |-> <<>>,
                     more |-> TRUE],
                    ms.N3M3, ms, obstacles).index_list

\* the backing array, indexed from 0 as in the program
to_array(l) == [k \in 0 .. (Len(l) - 1) |-> l[k + 1]]

\* ValidStateSpace.__select_type: the bytes of the unsigned type chosen for
\* number_of_states (c_ubyte, c_ushort, c_ulong); every number of this model
\* is below 2 ** 32, where the code turns to c_ulonglong
select_type(number_of_states) ==
    IF number_of_states <= Pow(2, 8) THEN 1
    ELSE IF number_of_states <= Pow(2, 16) THEN 2
    ELSE 8

\* _get_collection: array(types[0], indices) of ValidStateSpaceSequential raises
\* OverflowError on an index its type cannot hold, mp.RawArray(types[1], indices)
\* of ValidStateSpaceParallel keeps the low bytes of it
get_collection(sequential, indices, width) ==
    IF sequential /\ \E k \in DOMAIN indices : indices[k] >= Pow(2, 8 * width)
    THEN [raises |-> "OverflowError"]
    ELSE [returns |-> to_array([k \in DOMAIN indices |->
                                   indices[k] % Pow(2, 8 * width)])]

\* the array of the valid state space of a training run: on the maps of the
\* runs the two collections hold the same
ValidStateSpaceArray(map_size, obstacles) ==
    Eval(LAMBDA l : get_collection(FALSE, l, select_type(Len(l))).returns,
         index_list(MapSize(map_size.x, map_size.y), obstacles))

space_size_of(array) == Cardinality(DOMAIN array)

RECURSIVE binary_search_loop(_, _, _, _)
binary_search_loop(array, state_index, i, j) ==
    IF i > j THEN [is_valid |-> FALSE, valid_index |-> j]
    ELSE LET k == (i + j) \div 2
         IN  IF array[k] = state_index THEN [is_valid |-> TRUE, valid_index |-> k]
             ELSE IF array[k] < state_index
                  THEN binary_search_loop(array, state_index, k + 1, j)
                  ELSE binary_search_loop(array, state_index, i, k - 1)

\* A search that leaves out the first position of the array
binary_search_from_one(array, state_index) ==
    Eval(LAMBDA index : binary_search_loop(array, index, 1, space_size_of(array) - 1),
         state_index)

binary_search(array, state_index) ==
    Eval(LAMBDA index : binary_search_loop(array, index, 0, space_size_of(array) - 1),
         state_index)

\* The two caches of a ValidStateSpace.
\* d[key] = value on an OrderedDict, kept as the pairs in insertion order
dict_set(d, key, value) ==
    IF \E n \in 1 .. Len(d) : d[n][1] = key
    THEN [n \in 1 .. Len(d) |-> IF d[n][1] = key THEN <<key, value>> ELSE d[n]]
    ELSE Append(d, <<key, value>>)

\* A cache that is never trimmed
pop_no_items(d, max_cache_length) == d

\* while len(d) > max_cache_length: d.popitem(last=False)
pop_items(d, max_cache_length) ==
    IF Len(d) > max_cache_length
    THEN SubSeq(d, Len(d) - max_cache_length + 1, Len(d))
    ELSE d

\* ValidStateSpace.__load_near_states_to_cache
load_near_states_to_cache(vss, state_index, valid_state_index, is_valid) ==
    LET prev_valid_state_index ==
            IF is_valid THEN valid_state_index - 1 ELSE valid_state_index
        prev_state_index == state_index - 1
        next_valid_state_index == valid_state_index + 1
        next_state_index == state_index + 1
        prev ==
            IF prev_valid_state_index > -1
            THEN LET found == vss.array[prev_valid_state_index]
                 IN  IF found = prev_state_index
                     THEN [vss EXCEPT !.valid_cache =
                              dict_set(@, prev_state_index, prev_valid_state_index)]
                     ELSE [vss EXCEPT
                              !.valid_cache = dict_set(@, found, prev_valid_state_index),
                              !.not_valid_cache =
                                  dict_set(dict_set(@, found + 1, prev_valid_state_index),
                                           prev_state_index, prev_valid_state_index)]
            ELSE [vss EXCEPT !.not_valid_cache =
                     dict_set(@, prev_state_index, prev_valid_state_index)]
        next ==
            IF next_valid_state_index < vss.space_size
            THEN LET found == vss.array[next_valid_state_index]
                 IN  IF found = next_state_index
                     THEN [prev EXCEPT !.valid_cache =
                              dict_set(@, next_state_index, next_valid_state_index)]
                     ELSE [prev EXCEPT
                              !.valid_cache = dict_set(@, found, next_valid_state_index),
                              !.not_valid_cache =
                                  dict_set(dict_set(@, found - 1, valid_state_index),
                                           next_state_index, valid_state_index)]
            ELSE [prev EXCEPT !.not_valid_cache =
                     dict_set(@, next_state_index, valid_state_index)]
    IN  [next EXCEPT !.valid_cache = pop_items(@, vss.max_cache_length),
                     !.not_valid_cache = pop_items(@, vss.max_cache_length)]

\* ValidStateSpace.__add_to_valid_cache
add_to_valid_cache(vss, state_index, valid_state_index) ==
    LET loaded == load_near_states_to_cache(
                      [vss EXCEPT !.valid_cache = dict_set(@, state_index, valid_state_index)],
                      state_index, valid_state_index, TRUE)
    IN  IF Len(loaded.valid_cache) = vss.max_cache_length
        THEN [loaded EXCEPT !.valid_cache = Tail(@)]
        ELSE loaded

\* ValidStateSpace.__add_to_not_valid_cache
add_to_not_valid_cache(vss, state_index, last_smaller_valid_index) ==
    LET loaded == load_near_states_to_cache(
                      [vss EXCEPT !.not_valid_cache =
                          dict_set(@, state_index, last_smaller_valid_index)],
                      state_index, last_smaller_valid_index, FALSE)
    IN  IF Len(loaded.not_valid_cache) = vss.max_cache_length
        THEN [loaded EXCEPT !.not_valid_cache = Tail(@)]
        ELSE loaded

\* ValidStateSpace.get_valid_index with its cache: the object it leaves
get_valid_index_cached(vss, state_index) ==
    IF \E n \in 1 .. Len(vss.valid_cache) : vss.valid_cache[n][1] = state_index
    THEN vss
    ELSE LET r == binary_search(vss.array, state_index)
         IN  IF ~r.is_valid THEN vss
             ELSE add_to_valid_cache(vss, state_index, r.valid_index)

\* ValidStateSpace.is_state_outside_obstacles with its caches: the object it leaves
is_state_outside_obstacles_cached(vss, state_index) ==
    IF \/ \E n \in 1 .. Len(vss.valid_cache) : vss.valid_cache[n][1] = state_index
       \/ \E n \in 1 .. Len(vss.not_valid_cache) : vss.not_valid_cache[n][1] = state_index
    THEN vss
    ELSE LET r == binary_search(vss.array, state_index)
         IN  IF r.is_valid THEN add_to_valid_cache(vss, state_index, r.valid_index)
             ELSE add_to_not_valid_cache(vss, state_index, r.valid_index)

\* what ValidStateSpace.get_valid_index returns, with its cache
get_valid_index_result(vss, state_index) ==
    IF \E n \in 1 .. Len(vss.valid_cache) : vss.valid_cache[n][1] = state_index
    THEN LET n == CHOOSE n \in 1 .. Len(vss.valid_cache) :
                      vss.valid_cache[n][1] = state_index
         IN  vss.valid_cache[n][2]
    ELSE LET r == binary_search(vss.array, state_index)
         IN  IF r.is_valid THEN r.valid_index ELSE -1

\* what ValidStateSpace.is_state_outside_obstacles returns, with its caches
is_state_outside_obstacles_result(vss, state_index) ==
    IF \E n \in 1 .. Len(vss.valid_cache) : vss.valid_cache[n][1] = state_index
    THEN TRUE
    ELSE IF \E n \in 1 .. Len(vss.not_valid_cache) :
                vss.not_valid_cache[n][1] = state_index
         THEN FALSE
         ELSE binary_search(vss.array, state_index).is_valid

\* ValidStateSpace.get_valid_index on the object vss: the index it returns and
\* the object it leaves
get_valid_index(vss, state) ==
    Eval(LAMBDA state_index :
             [returns |-> get_valid_index_result(vss, state_index),
              vss |-> get_valid_index_cached(vss, state_index)],
         to_index(state, vss.map_size))

\* ValidStateSpace.is_state_outside_obstacles on the object vss: the answer it
\* returns and the object it leaves
is_state_outside_obstacles(vss, state) ==
    Eval(LAMBDA state_index :
             [returns |-> is_state_outside_obstacles_result(vss, state_index),
              vss |-> is_state_outside_obstacles_cached(vss, state_index)],
         to_index(state, vss.map_size))

\* ValidStateSpace.__init__ of the parallel class: the object it leaves
ValidStateSpaceObject(map_size, obstacles) ==
    Eval(LAMBDA arr :
             [map_size |-> MapSize(map_size.x, map_size.y),
              space_size |-> space_size_of(arr), array |-> arr,
              max_cache_length |-> 3 * map_size.x,
              valid_cache |-> <<>>, not_valid_cache |-> <<>>],
         ValidStateSpaceArray(map_size, obstacles))

(***************************************************************************)
(* The state of a training run.                                            *)
(***************************************************************************)
VARIABLES
    configs,                  \* the TrainConfigs, after validate()
    valid_state_space,        \* the ValidStateSpace object as constructed
    policy,                   \* Policy._arr
    old_values,               \* ValueFunctionsContainerSequential.__old_values
    new_values,               \* ValueFunctionsContainerSequential.__new_values
    array_a,                  \* ValueFunctionsContainerParallel.__array_a
    array_b,                  \* ValueFunctionsContainerParallel.__array_b
    swapped,                  \* ValueFunctionsContainerParallel.__swapped
    traindata,                \* TrainManager.__traindata
    scratch,                  \* next_states, next_states_values and the caches
                              \* of the ValidStateSpace: [0] the TrainManager's,
                              \* [w] the copy of worker process w; history: the
                              \* calls of get_valid_index of its last pass
    pc,                       \* where the TrainManager is in start()
    loop_count,               \* the counter of the for loop the TrainManager is in
    value_event,              \* ProcessSharedData.value_event
    policy_event,             \* ProcessSharedData.policy_event
    semaphore,                \* ProcessSharedData.semaphore
    max_differences,          \* ProcessSharedData.max_differences
    partial_values_sums,      \* ProcessSharedData.partial_values_sums
    partial_changed_actions,  \* ProcessSharedData.partial_changed_actions
    process,                  \* the worker processes: pc, interval, locals
    policy_file,              \* the policy files written
    callback_log,             \* the TrainData copies handed to the callback
    stdout,                   \* the lines printed
    policy_before,            \* history: the policy when the last policy sweep began
    call                      \* a function of the package called on its own

vars ==
    <<configs, valid_state_space, policy, old_values, new_values, array_a, array_b,
      swapped, traindata, scratch, pc, loop_count, value_event, policy_event,
      semaphore, max_differences, partial_values_sums, partial_changed_actions,
      process, policy_file, callback_log, stdout, policy_before, call>>

(***************************************************************************)
(* reward.py, markov_transition_density.py                                 *)
(***************************************************************************)
Abs(n) == IF n < 0 THEN -n ELSE n

manhattan_distance(point_a, point_b) ==
    Abs(point_a.x - point_b.x) + Abs(point_a.y - point_b.y)

\* rewards in hundredths
DenseRewardFunction(state, successor) ==
    IF state.agent_pos = state.target_pos THEN 100
    ELSE IF state.agent_pos = state.opponent_pos THEN -100
    ELSE IF successor.agent_pos = successor.target_pos THEN 25
    ELSE IF successor.agent_pos = successor.opponent_pos THEN -25
    ELSE IF manhattan_distance(successor.agent_pos, successor.opponent_pos) = 1 THEN -10
    ELSE -1

SparseRewardFunction(state, successor) ==
    IF state.agent_pos = state.target_pos THEN 100
    ELSE IF state.agent_pos = state.opponent_pos THEN -100
    ELSE 0

reward(state, successor) ==
    (Unit \div RDen) * (IF configs.reward = "dense"
                        THEN DenseRewardFunction(state, successor)
                        ELSE SparseRewardFunction(state, successor))

\* DiscreteDistributionMarkovTransitionDensity.__call__, in units of 1/PDen
transition_density(action_distribution, chosen_action, action) ==
    action_distribution[(action - chosen_action) % MAX_EXCLUSIVE]

\* the density of the agent of a training run
markov_transition_density(chosen_action, action) ==
    transition_density(configs.action_distribution, chosen_action, action)

(***************************************************************************)
(* value_functions_container.py                                            *)
(***************************************************************************)
\* an array read as Python reads it: a negative index counts from the end
get_current_value(current_values, index) ==
    IF index < 0 THEN current_values[space_size_of(current_values) + index]
    ELSE current_values[index]

\* ValueFunctionsContainerParallel: the array get_current_value reads
current_array == IF ~swapped THEN array_a ELSE array_b

\* ValueFunctionsContainerParallel: the array set_next_value writes
next_array == IF ~swapped THEN array_b ELSE array_a

(***************************************************************************)
(* The Bellman update.  scr is the private data of the caller, the          *)
(* TrainManager or a worker process: next_states and next_states_values,    *)
(* which a term of probability 0 leaves as they were, and the two caches of *)
(* its ValidStateSpace object.                                              *)
(***************************************************************************)
SumOver(f) == f[0] + f[1] + f[2] + f[3]

\* the ValidStateSpace object of the caller: the array, with its own caches
ValidStateSpaceOf(scr) ==
    [valid_state_space EXCEPT !.valid_cache = scr.valid_cache,
                              !.not_valid_cache = scr.not_valid_cache]

\* the private data once a lookup has left the object vss
with_caches(scr, vss) ==
    [scr EXCEPT !.valid_cache = vss.valid_cache,
                !.not_valid_cache = vss.not_valid_cache]

\* the condition of the if: the test is not made for the chosen action when it
\* is known to be valid
bellman_test(vss, successor, is_known_valid) ==
    IF is_known_valid THEN [returns |-> TRUE, vss |-> vss]
    ELSE is_state_outside_obstacles(vss, successor)

\* the index whose value is read: that of the successor, or that of the state
bellman_lookup(successor, state_index, tested) ==
    IF tested.returns THEN get_valid_index(tested.vss, successor)
    ELSE [returns |-> state_index, vss |-> tested.vss]

\* what one pass of the loop leaves in next_states, next_states_values and the
\* caches; looked_up keeps the calls of get_valid_index
bellman_pass_end(scr, action, successor, is_known_valid, current_values, tested, looked) ==
    [next_states |-> [scr.next_states EXCEPT ![action] = successor],
     next_states_values |->
         [scr.next_states_values EXCEPT
             ![action] = get_current_value(current_values, looked.returns)],
     valid_cache |-> looked.vss.valid_cache,
     not_valid_cache |-> looked.vss.not_valid_cache,
     looked_up |->
         IF tested.returns
         THEN scr.looked_up \cup {[state |-> successor, returned |-> looked.returns,
                                   known |-> is_known_valid]}
         ELSE scr.looked_up]

bellman_pass_tested(scr, action, successor, state_index, is_known_valid, current_values, tested) ==
    Eval(LAMBDA looked : bellman_pass_end(scr, action, successor, is_known_valid,
                                          current_values, tested, looked),
         bellman_lookup(successor, state_index, tested))

bellman_pass_moved(scr, action, successor, state_index, is_known_valid, current_values) ==
    Eval(LAMBDA tested : bellman_pass_tested(scr, action, successor, state_index,
                                             is_known_valid, current_values, tested),
         bellman_test(ValidStateSpaceOf(scr), successor, is_known_valid))

\* one pass of the loop over the actions
bellman_pass(probabilities, state, state_index, chosen_action, knows_chosen_action_is_valid, current_values, scr, action) ==
    IF probabilities[action] = 0 THEN scr
    ELSE bellman_pass_moved(scr, action,
             [state EXCEPT !.agent_pos =
                 move_checking_bounds(state.agent_pos, action,
                                      valid_state_space.map_size).pos],
             state_index, knows_chosen_action_is_valid /\ action = chosen_action,
             current_values)

\* the loop over the actions, from action on
RECURSIVE bellman_loop(_, _, _, _, _, _, _, _)
bellman_loop(probabilities, state, state_index, chosen_action, knows_chosen_action_is_valid, current_values, scr, action) ==
    IF action = MAX_EXCLUSIVE THEN scr
    ELSE Eval(LAMBDA next :
                  bellman_loop(probabilities, state, state_index, chosen_action,
                               knows_chosen_action_is_valid, current_values, next,
                               action + 1),
              bellman_pass(probabilities, state, state_index, chosen_action,
                           knows_chosen_action_is_valid, current_values, scr, action))

\* A value that weighs the successors four times as much
bellman_value_quadrupled(probabilities, state, chosen_action, next_states, next_states_values) ==
    reward(state, next_states[chosen_action])
    + (4 * configs.discount_factor
           * SumOver([a \in Actions |-> next_states_values[a] * probabilities[a]]))
      \div (PDen * GDen)

\* the return statement
bellman_value(probabilities, state, chosen_action, next_states, next_states_values) ==
    reward(state, next_states[chosen_action])
    + (configs.discount_factor
           * SumOver([a \in Actions |-> next_states_values[a] * probabilities[a]]))
      \div (PDen * GDen)

\* the value returned and the private data left
bellman_update(probabilities, state, state_index, chosen_action, knows_chosen_action_is_valid, current_values, scr) ==
    Eval(LAMBDA after :
             [value |-> bellman_value(probabilities, state, chosen_action,
                                      after.next_states, after.next_states_values),
              scratch |-> after],
         bellman_loop(probabilities, state, state_index, chosen_action,
                      knows_chosen_action_is_valid, current_values, scr, 0))

\* TrainManager.__calculate_new_value_function_value
TrainManager_calculate_new_value_function_value(state, state_index, chosen_action, knows, current_values, scr) ==
    bellman_update([a \in Actions |-> markov_transition_density(chosen_action, a)],
                   state, state_index, chosen_action, knows, current_values, scr)

\* parallel_train.calculate_new_value_function_value
calculate_new_value_function_value(state, state_index, chosen_action, knows, current_values, scr) ==
    bellman_update([a \in Actions |-> markov_transition_density(a, chosen_action)],
                   state, state_index, chosen_action, knows, current_values, scr)

\* the lines of mask_actions after the test of the obstacles
mask_actions_tested(parallel, state, state_index, action, current_values, scr, tested) ==
    IF ~tested.returns
    THEN [value |-> NegInf, scratch |-> with_caches(scr, tested.vss)]
    ELSE IF parallel
         THEN calculate_new_value_function_value(state, state_index, action, TRUE,
                  current_values, with_caches(scr, tested.vss))
         ELSE TrainManager_calculate_new_value_function_value(
                  state, state_index, action, TRUE, current_values,
                  with_caches(scr, tested.vss))

\* TrainManager.__mask_actions (parallel = FALSE), parallel_train.mask_actions
mask_actions(parallel, state, state_index, action, current_values, scr) ==
    LET ms == valid_state_space.map_size
        m == move_checking_bounds(state.agent_pos, action, ms)
    IN  IF ~m.is_within_bounds THEN [value |-> NegInf, scratch |-> scr]
        ELSE Eval(LAMBDA tested :
                      mask_actions_tested(parallel, state, state_index, action,
                                          current_values, scr, tested),
                  is_state_outside_obstacles(ValidStateSpaceOf(scr),
                      [state EXCEPT !.agent_pos = m.pos]))

\* the keys max() computes, one action after the other, each on the scratch the
\* previous one left
RECURSIVE mask_actions_loop(_, _, _, _, _, _)
mask_actions_loop(parallel, state, state_index, current_values, keys, scr) ==
    IF Len(keys) = MAX_EXCLUSIVE THEN [key |-> keys, scratch |-> scr]
    ELSE Eval(LAMBDA r : mask_actions_loop(parallel, state, state_index,
                             current_values, Append(keys, r.value), r.scratch),
              mask_actions(parallel, state, state_index, Len(keys),
                           current_values, scr))

\* max(): the first action of greatest key
first_max(r) ==
    [action |-> CHOOSE a \in Actions :
                    /\ \A b \in Actions : r.key[b + 1] <= r.key[a + 1]
                    /\ \A b \in Actions : b < a => r.key[b + 1] < r.key[a + 1],
     scratch |-> r.scratch]

\* max(actions, key = mask_actions)
max_action(parallel, state, state_index, current_values, scr) ==
    Eval(first_max,
         mask_actions_loop(parallel, state, state_index, current_values, <<>>, scr))

\* copy_valid_state_to / the iterator's from_index
valid_state(index) ==
    from_index(valid_state_space.array[index], valid_state_space.map_size)

(***************************************************************************)
(* train_manager.py: the sequential sweeps                                 *)
(***************************************************************************)
\* one pass of the loop of TrainManager.__update_value_function: r is the new
\* value of the state at acc.index and the scratch its computation left
update_value_function_pass(current_values, acc, r) ==
    [index |-> acc.index + 1,
     mean_value |-> acc.mean_value + r.value,
     max_value_diff |->
         IF Abs(r.value - get_current_value(current_values, acc.index))
                > acc.max_value_diff
         THEN Abs(r.value - get_current_value(current_values, acc.index))
         ELSE acc.max_value_diff,
     new_values |-> [acc.new_values EXCEPT ![acc.index] = r.value],
     scratch |-> r.scratch]

\* the loop of TrainManager.__update_value_function, over the indices in
\* ascending order
RECURSIVE update_value_function_loop(_, _, _)
update_value_function_loop(pol, current_values, acc) ==
    IF acc.index >= valid_state_space.space_size THEN acc
    ELSE Eval(LAMBDA next : update_value_function_loop(pol, current_values, next),
              Eval(LAMBDA r : update_value_function_pass(current_values, acc, r),
                   TrainManager_calculate_new_value_function_value(
                       valid_state(acc.index), acc.index, pol[acc.index], FALSE,
                       current_values, acc.scratch)))

\* what TrainManager.__update_value_function leaves: the mean, the swap included
update_value_function_end(current_values, acc) ==
    [old_values |-> acc.new_values, new_values |-> current_values,
     scratch |-> acc.scratch,
     mean_value |-> [num |-> acc.mean_value, den |-> valid_state_space.space_size],
     max_value_diff |-> acc.max_value_diff]

\* TrainManager.__update_value_function
update_value_function(pol, current_values, next_values, scr) ==
    Eval(LAMBDA acc : update_value_function_end(current_values, acc),
         update_value_function_loop(pol, current_values,
             [index |-> 0, mean_value |-> 0, max_value_diff |-> 0,
              new_values |-> next_values,
              scratch |-> [scr EXCEPT !.looked_up = {}]]))

\* a pass that counts the state whether or not its action changed
update_policy_pass_counting_all(acc, r) ==
    [index |-> acc.index - 1,
     changed_actions_number |-> acc.changed_actions_number + 1,
     policy |-> [acc.policy EXCEPT ![acc.index] = r.action],
     scratch |-> r.scratch]

\* one pass of the loop of TrainManager.__update_policy: r is the action max()
\* chose for the state at acc.index and the scratch its computation left
update_policy_pass(acc, r) ==
    [index |-> acc.index - 1,
     changed_actions_number |->
         acc.changed_actions_number
             + (IF r.action # acc.policy[acc.index] THEN 1 ELSE 0),
     policy |-> [acc.policy EXCEPT ![acc.index] = r.action],
     scratch |-> r.scratch]

\* the loop of TrainManager.__update_policy, over the indices in descending order
RECURSIVE update_policy_loop(_, _)
update_policy_loop(current_values, acc) ==
    IF acc.index < 0 THEN acc
    ELSE Eval(LAMBDA next : update_policy_loop(current_values, next),
              Eval(LAMBDA r : update_policy_pass(acc, r),
                   max_action(FALSE, valid_state(acc.index), acc.index,
                              current_values, acc.scratch)))

\* TrainManager.__update_policy
update_policy(pol, current_values, scr) ==
    update_policy_loop(current_values,
        [index |-> valid_state_space.space_size - 1,
         changed_actions_number |-> 0, policy |-> pol,
         scratch |-> [scr EXCEPT !.looked_up = {}]])

(***************************************************************************)
(* train_manager.py: construction                                          *)
(***************************************************************************)
\* A partition that fails: every process is handed the whole space
whole_space_intervals(space_size, processes_number) ==
    [p \in 1 .. processes_number |-> <<0, space_size>>]

\* A partition that hands the remainder to nobody
processes_intervals_without_remainder(n, states_per_process, remainder, last_end, intervals) ==
    [p \in 1 .. n |-> <<(p - 1) * states_per_process, p * states_per_process>>]

\* TrainManager.__get_processes_intervals
RECURSIVE processes_intervals_loop(_, _, _, _, _)
processes_intervals_loop(n, states_per_process, remainder, last_end, intervals) ==
    IF n = 0 THEN intervals
    ELSE LET end == last_end + states_per_process + (IF remainder > 0 THEN 1 ELSE 0)
         IN  processes_intervals_loop(n - 1, states_per_process,
                 IF remainder > 0 THEN remainder - 1 ELSE remainder,
                 end, Append(intervals, <<last_end, end>>))

get_processes_intervals(space_size, processes_number) ==
    processes_intervals_loop(processes_number, space_size \div processes_number,
                             space_size % processes_number, 0, <<>>)

\* BaseConfigs.__check and TrainConfigs._check_helper
validate(c) ==
    /\ ~(c.map_size.x * c.map_size.y < 3 \/ c.map_size.x < 0)
    /\ \A i \in 1 .. Len(c.obstacles) : is_inside_bounds(c.obstacles[i], c.map_size)
    /\ c.max_iter > 0
    /\ c.processes_number > 0
    /\ ~(c.discount_factor < 0 \/ c.discount_factor > GDen)
    /\ c.value_function_tolerance >= 0
    /\ c.changed_actions_tolerance >= 0
    /\ c.changed_actions_percentage_tolerance.num >= 0

\* A check of the sum alone
check_for_errors_sum_only(action_distribution) ==
    SumOver(action_distribution) = PDen

\* DiscreteDistributionMarkovTransitionDensity.__check_for_errors
check_for_errors(action_distribution) ==
    /\ SumOver(action_distribution) = PDen
    /\ \A a \in Actions : action_distribution[a] >= 0

Distribution(chosen, right, opposite, left) ==
    [a \in Actions |->
        CASE a = 0 -> chosen [] a = 1 -> right [] a = 2 -> opposite [] a = 3 -> left]

\* the maps the runs are drawn from
Maps ==
    { [map_size |-> Vec2D(3, 1), obstacles |-> <<Obstacle(1, 0, 1, 1)>>],
      [map_size |-> Vec2D(3, 1), obstacles |-> <<Obstacle(2, 0, 1, 1)>>],
      [map_size |-> Vec2D(2, 2), obstacles |-> <<Obstacle(1, 1, 1, 1)>>] }

\* the transition densities the runs are drawn from, in quarters
Distributions ==
    { Distribution(2, 1, 0, 1), Distribution(3, 1, 0, 0), Distribution(0, 2, 0, 2) }

TrainConfigs(m, d, g, r, w, mi, vt, at, pt, dry) ==
    [map_size |-> m.map_size, obstacles |-> m.obstacles, action_distribution |-> d,
     discount_factor |-> g, reward |-> r, processes_number |-> w, max_iter |-> mi,
     value_function_tolerance |-> vt, changed_actions_tolerance |-> at,
     changed_actions_percentage_tolerance |-> pt, is_dry_run |-> dry]

NoTolerance == [num |-> 0, den |-> 1]

\* runs that differ in what is computed
NumericConfigs ==
    { TrainConfigs(m, d, g, r, w, MaxIterBound, 0, 0, NoTolerance, FALSE) :
        m \in Maps, d \in Distributions, g \in {1, 2}, r \in {"dense", "sparse"},
        w \in {1, 2} }

\* runs that differ in when they stop
StopConfigs ==
    { TrainConfigs(CHOOSE m \in Maps : m.map_size.y = 2,
                   Distribution(2, 1, 0, 1), 1, "dense", w, mi, t[1], t[2], t[3], dry) :
        w \in {1, 2}, mi \in 1 .. MaxIterBound, dry \in BOOLEAN,
        t \in { <<0, 0, NoTolerance>>, <<2 * Unit, 0, NoTolerance>>,
                <<0, 17, NoTolerance>>, <<0, 0, [num |-> 8, den |-> 9]>> } }

\* runs that differ in the number of worker processes
ProcessesConfigs ==
    { TrainConfigs(m, Distribution(2, 1, 0, 1), 1, "dense", w, MaxIterBound,
                   0, 0, NoTolerance, FALSE) :
        m \in Maps, w \in 2 .. MaxProcesses }

\* the runs whose scheduling is examined: every map, 1 to MaxProcesses processes
SchedulingConfigs ==
    { c \in { TrainConfigs(m, Distribution(2, 1, 0, 1), 1, "dense", w, MaxIterBound,
                           0, 0, NoTolerance, FALSE) :
                  m \in Maps, w \in 1 .. MaxProcesses } :
        validate(c) /\ check_for_errors(c.action_distribution) }

\* a map whose one free cell leaves no valid state
EmptyMap == [map_size |-> Vec2D(3, 1), obstacles |-> <<Obstacle(1, 0, 2, 1)>>]

\* runs whose tolerances the statistics of TrainManager.__init__ already meet:
\* the changed actions, their percentage, the value difference, the empty space
EntryConfigs ==
    { TrainConfigs(CHOOSE m \in Maps : m.map_size.y = 2,
                   Distribution(2, 1, 0, 1), 1, "dense", w, MaxIterBound,
                   t[1], t[2], t[3], FALSE) :
        w \in {1, 2},
        t \in { <<0, 18, NoTolerance>>, <<0, 0, [num |-> 1, den |-> 1]>>,
                <<Inf, 0, NoTolerance>> } }
    \cup { TrainConfigs(EmptyMap, Distribution(2, 1, 0, 1), 1, "dense", w,
                        MaxIterBound, 0, 0, NoTolerance, FALSE) : w \in {1, 2} }

TrainConfigsSet ==
    { c \in NumericConfigs \cup StopConfigs \cup ProcessesConfigs \cup EntryConfigs :
        validate(c) /\ check_for_errors(c.action_distribution) }

Zeros(space_size) == [k \in 0 .. (space_size - 1) |-> 0]

NoArray == [k \in {} |-> 0]

\* the private data of a process as TrainManager.__init__ leaves it
Scratch0 ==
    [next_states |-> [a \in Actions |-> State0],
     next_states_values |-> [a \in Actions |-> 0],
     valid_cache |-> <<>>, not_valid_cache |-> <<>>,
     looked_up |-> {}]

\* a printed line: its text and the number formatted into it
Line(text, number) == [text |-> text, number |-> number]

WARNING == "WARNING: there are more processes than valid states"

\* no function is called on its own during a training run
NoCall == [op |-> "none"]

\* TrainManager.__init__ on the validated configuration c
TrainManagerInit(c) ==
    LET vss == ValidStateSpaceObject(c.map_size, c.obstacles)
        size == vss.space_size
        W == c.processes_number
        intervals == get_processes_intervals(size, W)
    IN  /\ configs = c
        /\ valid_state_space = vss
        /\ policy = [k \in 0 .. (size - 1) |-> UP]
        /\ old_values = IF W = 1 THEN Zeros(size) ELSE NoArray
        /\ new_values = IF W = 1 THEN Zeros(size) ELSE NoArray
        /\ array_a = IF W = 1 THEN NoArray ELSE Zeros(size)
        /\ array_b = IF W = 1 THEN NoArray ELSE Zeros(size)
        /\ swapped = FALSE
        /\ traindata =
               [iteration_number |-> 0,
                mean_value |-> [num |-> 0, den |-> 1],
                max_value_diff |-> Inf,
                changed_actions_number |-> size,
                changed_actions_percentage |-> [num |-> 1, den |-> 1]]
        /\ scratch = [p \in 0 .. (W - 1) |-> Scratch0]
        /\ pc = IF W = 1 THEN "check" ELSE "start"
        /\ loop_count = 0
        /\ value_event = FALSE
        /\ policy_event = FALSE
        /\ semaphore = 0
        /\ max_differences = IF W = 1 THEN NoArray ELSE Zeros(W)
        /\ partial_values_sums = IF W = 1 THEN NoArray ELSE Zeros(W)
        /\ partial_changed_actions = IF W = 1 THEN NoArray ELSE Zeros(W)
        /\ process =
               IF W = 1 THEN NoArray
               ELSE [p \in 0 .. (W - 1) |->
                        [pc |-> "created",
                         start_index |-> intervals[p + 1][1],
                         end_index |-> intervals[p + 1][2],
                         index |-> 0, value_sum |-> 0, max_diff |-> 0,
                         changed_actions |-> 0]]
        /\ policy_file = <<>>
        /\ callback_log = <<>>
        /\ stdout = IF W # 1 /\ size < W THEN <<Line(WARNING, 0)>> ELSE <<>>
        /\ policy_before = [k \in 0 .. (size - 1) |-> UP]
        /\ call = NoCall

Init == \E c \in TrainConfigsSet : TrainManagerInit(c)

(***************************************************************************)
(* train_manager.py: TrainManager.start, sequential and parallel           *)
(***************************************************************************)
W == configs.processes_number

LessEq(a, b) == a.num * b.den <= b.num * a.den

\* A check that leaves out the iteration number
check_stop_conditions_without_max_iter ==
    \/ traindata.max_value_diff <= configs.value_function_tolerance
    \/ traindata.changed_actions_number <= configs.changed_actions_tolerance
    \/ LessEq(traindata.changed_actions_percentage,
              configs.changed_actions_percentage_tolerance)

\* A check that leaves out the percentage of changed actions
check_stop_conditions_without_percentage ==
    \/ traindata.iteration_number >= configs.max_iter
    \/ traindata.max_value_diff <= configs.value_function_tolerance
    \/ traindata.changed_actions_number <= configs.changed_actions_tolerance

\* TrainManager.__check_stop_conditions
check_stop_conditions ==
    \/ traindata.iteration_number >= configs.max_iter
    \/ traindata.max_value_diff <= configs.value_function_tolerance
    \/ traindata.changed_actions_number <= configs.changed_actions_tolerance
    \/ LessEq(traindata.changed_actions_percentage,
              configs.changed_actions_percentage_tolerance)

shared_unchanged ==
    UNCHANGED <<value_event, policy_event, semaphore, max_differences,
                partial_values_sums, partial_changed_actions, process>>

containers_unchanged ==
    UNCHANGED <<old_values, new_values, array_a, array_b, swapped>>

\* the while condition of __start_sequential and of __start_parallel
CheckStopConditions ==
    /\ pc = "check"
    /\ pc' = IF ~check_stop_conditions THEN "prepare"
             ELSE IF W = 1 THEN "write" ELSE "terminate"
    /\ stdout' = IF ~check_stop_conditions THEN stdout
                 ELSE Append(stdout, Line("", 0))
    /\ loop_count' = 0
    /\ shared_unchanged /\ containers_unchanged
    /\ UNCHANGED <<configs, valid_state_space, policy, traindata, scratch,
                   policy_file, callback_log, policy_before, call>>

\* TrainManager.__prepare_traindata, and the line printed after it
PrepareTraindata ==
    /\ pc = "prepare"
    /\ traindata' = [iteration_number |-> traindata.iteration_number + 1,
                     mean_value |-> [num |-> 0, den |-> 1],
                     max_value_diff |-> 0,
                     changed_actions_number |-> 0,
                     changed_actions_percentage |-> [num |-> 0, den |-> 1]]
    /\ stdout' = Append(stdout, Line("-th iteration", traindata.iteration_number + 1))
    /\ pc' = IF W = 1 THEN "update_value_function" ELSE "value_set"
    /\ shared_unchanged /\ containers_unchanged
    /\ UNCHANGED <<configs, valid_state_space, policy, scratch, loop_count,
                   policy_file, callback_log, policy_before, call>>

\* TrainManager.__update_value_function
UpdateValueFunction ==
    /\ pc = "update_value_function"
    /\ \E r \in {update_value_function(policy, old_values, new_values, scratch[0])} :
           /\ old_values' = r.old_values
           /\ new_values' = r.new_values
           /\ scratch' = [scratch EXCEPT ![0] = r.scratch]
           /\ traindata' = [traindata EXCEPT !.mean_value = r.mean_value,
                                             !.max_value_diff = r.max_value_diff]
    /\ pc' = "update_policy"
    /\ shared_unchanged
    /\ UNCHANGED <<configs, valid_state_space, policy, array_a, array_b, swapped,
                   loop_count, policy_file, callback_log, policy_before, stdout, call>>

\* TrainManager.__update_policy
UpdatePolicy ==
    /\ pc = "update_policy"
    /\ policy_before' = policy
    /\ \E r \in {update_policy(policy, old_values, scratch[0])} :
           /\ policy' = r.policy
           /\ scratch' = [scratch EXCEPT ![0] = r.scratch]
           /\ traindata' =
                  [traindata EXCEPT
                      !.changed_actions_number = r.changed_actions_number,
                      !.changed_actions_percentage =
                          [num |-> r.changed_actions_number,
                           den |-> valid_state_space.space_size]]
    /\ pc' = "callback"
    /\ shared_unchanged /\ containers_unchanged
    /\ UNCHANGED <<configs, valid_state_space, loop_count, policy_file, callback_log,
                   stdout, call>>

\* self.__traindata: the object and the values of its fields
TrainDataObject == [id |-> "traindata", fields |-> traindata]

\* A call that hands over the object itself
same_object(object) == object

\* copy.copy(): another object with the same field values
copy(object) == [id |-> "copy", fields |-> object.fields]

\* self.__callback(copy(self.__traindata)), the callback keeping what it is given
Callback ==
    /\ pc = "callback"
    /\ callback_log' = Append(callback_log, copy(TrainDataObject).fields)
    /\ pc' = "check"
    /\ shared_unchanged /\ containers_unchanged
    /\ UNCHANGED <<configs, valid_state_space, policy, traindata, scratch,
                   loop_count, policy_file, policy_before, stdout, call>>

\* a write that does not look at is_dry_run
WritePolicyAlways ==
    /\ pc = "write"
    /\ policy_file' = Append(policy_file, policy)
    /\ pc' = "done"
    /\ shared_unchanged /\ containers_unchanged
    /\ UNCHANGED <<configs, valid_state_space, policy, traindata, scratch,
                   loop_count, callback_log, policy_before, stdout, call>>

\* policy.write_to_file, unless is_dry_run
WritePolicy ==
    /\ pc = "write"
    /\ policy_file' = IF ~configs.is_dry_run THEN Append(policy_file, policy)
                      ELSE policy_file
    /\ pc' = "done"
    /\ shared_unchanged /\ containers_unchanged
    /\ UNCHANGED <<configs, valid_state_space, policy, traindata, scratch,
                   loop_count, callback_log, policy_before, stdout, call>>

\* __start_parallel: process.start() of the next process
StartProcess ==
    /\ pc = "start"
    /\ process' = [process EXCEPT ![loop_count].pc = "value_wait"]
    /\ loop_count' = IF loop_count + 1 < W THEN loop_count + 1 ELSE 0
    /\ pc' = IF loop_count + 1 < W THEN "start" ELSE "check"
    /\ containers_unchanged
    /\ UNCHANGED <<configs, valid_state_space, policy, traindata, scratch,
                   value_event, policy_event, semaphore, max_differences,
                   partial_values_sums, partial_changed_actions,
                   policy_file, callback_log, policy_before, stdout, call>>

\* A coordinator that goes on to write the policy and leaves the processes running
LeaveProcessesRunning ==
    /\ pc = "terminate"
    /\ pc' = "write"
    /\ shared_unchanged /\ containers_unchanged
    /\ UNCHANGED <<configs, valid_state_space, policy, traindata, scratch,
                   loop_count, policy_file, callback_log, policy_before, stdout, call>>

\* __start_parallel: process.terminate(); process.join() of the next process
TerminateProcess ==
    /\ pc = "terminate"
    /\ process' = [process EXCEPT ![loop_count].pc = "terminated"]
    /\ loop_count' = IF loop_count + 1 < W THEN loop_count + 1 ELSE 0
    /\ pc' = IF loop_count + 1 < W THEN "terminate" ELSE "write"
    /\ containers_unchanged
    /\ UNCHANGED <<configs, valid_state_space, policy, traindata, scratch,
                   value_event, policy_event, semaphore, max_differences,
                   partial_values_sums, partial_changed_actions,
                   policy_file, callback_log, policy_before, stdout, call>>

manager_only(next_pc) ==
    /\ pc' = next_pc
    /\ UNCHANGED <<configs, valid_state_space, policy, scratch, max_differences,
                   partial_values_sums, partial_changed_actions, process,
                   policy_file, callback_log, stdout, call>>

\* __evaluate_policy_parallel: value_event.set()
ValueEventSet ==
    /\ pc = "value_set"
    /\ value_event' = TRUE
    /\ loop_count' = 0
    /\ manager_only("value_acquire")
    /\ containers_unchanged
    /\ UNCHANGED <<policy_event, semaphore, traindata, policy_before>>

\* A coordinator whose acquire() never blocks
SemaphoreAcquireUnguarded ==
    /\ pc \in {"value_acquire", "policy_acquire"}
    /\ semaphore' = semaphore - 1
    /\ loop_count' = IF loop_count + 1 < W THEN loop_count + 1 ELSE 0
    /\ manager_only(IF loop_count + 1 < W THEN pc
                    ELSE IF pc = "value_acquire" THEN "value_clear" ELSE "policy_clear")
    /\ containers_unchanged
    /\ UNCHANGED <<value_event, policy_event, traindata, policy_before>>

\* semaphore.acquire() in the loops of both barriers
SemaphoreAcquire ==
    /\ pc \in {"value_acquire", "policy_acquire"}
    /\ semaphore > 0
    /\ semaphore' = semaphore - 1
    /\ loop_count' = IF loop_count + 1 < W THEN loop_count + 1 ELSE 0
    /\ manager_only(IF loop_count + 1 < W THEN pc
                    ELSE IF pc = "value_acquire" THEN "value_clear" ELSE "policy_clear")
    /\ containers_unchanged
    /\ UNCHANGED <<value_event, policy_event, traindata, policy_before>>

\* __evaluate_policy_parallel: value_event.clear()
ValueEventClear ==
    /\ pc = "value_clear"
    /\ value_event' = FALSE
    /\ manager_only("swap")
    /\ containers_unchanged
    /\ UNCHANGED <<policy_event, semaphore, traindata, loop_count, policy_before>>

\* __evaluate_policy_parallel: swap_value_functions()
SwapValueFunctions ==
    /\ pc = "swap"
    /\ swapped' = ~swapped
    /\ manager_only("value_reduce")
    /\ UNCHANGED <<old_values, new_values, array_a, array_b, value_event,
                   policy_event, semaphore, traindata, loop_count, policy_before>>

\* __evaluate_policy_parallel: mean_value and max_value_diff
ValueReduce ==
    /\ pc = "value_reduce"
    /\ LET sum[p \in 0 .. W] ==
               IF p = 0 THEN 0 ELSE sum[p - 1] + partial_values_sums[p - 1]
           max[p \in 1 .. W] ==
               IF p = 1 THEN max_differences[0]
               ELSE IF max_differences[p - 1] > max[p - 1]
                    THEN max_differences[p - 1] ELSE max[p - 1]
       IN  traindata' =
               [traindata EXCEPT
                   !.mean_value = [num |-> sum[W], den |-> valid_state_space.space_size],
                   !.max_value_diff = max[W]]
    /\ manager_only("policy_set")
    /\ containers_unchanged
    /\ UNCHANGED <<value_event, policy_event, semaphore, loop_count, policy_before>>

\* __improve_policy_parallel: policy_event.set()
PolicyEventSet ==
    /\ pc = "policy_set"
    /\ policy_event' = TRUE
    /\ policy_before' = policy
    /\ loop_count' = 0
    /\ manager_only("policy_acquire")
    /\ containers_unchanged
    /\ UNCHANGED <<value_event, semaphore, traindata>>

\* __improve_policy_parallel: policy_event.clear()
PolicyEventClear ==
    /\ pc = "policy_clear"
    /\ policy_event' = FALSE
    /\ manager_only("policy_reduce")
    /\ containers_unchanged
    /\ UNCHANGED <<value_event, semaphore, traindata, loop_count, policy_before>>

\* __improve_policy_parallel: changed_actions_number and its percentage
PolicyReduce ==
    /\ pc = "policy_reduce"
    /\ LET sum[p \in 0 .. W] ==
               IF p = 0 THEN 0 ELSE sum[p - 1] + partial_changed_actions[p - 1]
       IN  traindata' =
               [traindata EXCEPT
                   !.changed_actions_number = sum[W],
                   !.changed_actions_percentage =
                       [num |-> sum[W], den |-> valid_state_space.space_size]]
    /\ manager_only("callback")
    /\ containers_unchanged
    /\ UNCHANGED <<value_event, policy_event, semaphore, loop_count, policy_before>>

(***************************************************************************)
(* parallel_train.py: process_main of worker process p                     *)
(***************************************************************************)
process_only(p, next_pc) ==
    /\ process[p].pc # "terminated"
    /\ UNCHANGED <<configs, valid_state_space, old_values, new_values, swapped,
                   traindata, pc, loop_count, value_event, policy_event,
                   policy_file, callback_log, policy_before, stdout, call>>

\* shared_data.value_event.wait(), then the first lines of evaluate_policy
ProcessValueWait(p) ==
    /\ process[p].pc = "value_wait"
    /\ value_event
    /\ process' = [process EXCEPT ![p].pc = "evaluate",
                                  ![p].index = process[p].start_index,
                                  ![p].value_sum = 0,
                                  ![p].max_diff = 0]
    /\ process_only(p, "evaluate")
    /\ UNCHANGED <<policy, array_a, array_b, scratch, semaphore, max_differences,
                   partial_values_sums, partial_changed_actions>>

\* A pass of the loop body that leaves out set_next_value
ProcessEvaluateWithoutWrite(p) ==
    /\ process[p].pc = "evaluate"
    /\ process[p].index < process[p].end_index
    /\ \E index \in {process[p].index} :
       \E r \in {calculate_new_value_function_value(
                    valid_state(index), index, policy[index], FALSE,
                    current_array, [scratch[p] EXCEPT !.looked_up = {}])} :
       \E diff \in {Abs(r.value - get_current_value(current_array, index))} :
           /\ scratch' = [scratch EXCEPT ![p] = r.scratch]
           /\ process' = [process EXCEPT
                             ![p].index = index + 1,
                             ![p].value_sum = process[p].value_sum + r.value,
                             ![p].max_diff = IF diff > process[p].max_diff
                                             THEN diff ELSE process[p].max_diff]
    /\ process_only(p, "evaluate")
    /\ UNCHANGED <<policy, array_a, array_b, semaphore, max_differences,
                   partial_values_sums, partial_changed_actions>>

\* evaluate_policy: one pass of the loop body
ProcessEvaluate(p) ==
    /\ process[p].pc = "evaluate"
    /\ process[p].index < process[p].end_index
    /\ \E index \in {process[p].index} :
       \E r \in {calculate_new_value_function_value(
                    valid_state(index), index, policy[index], FALSE,
                    current_array, [scratch[p] EXCEPT !.looked_up = {}])} :
       \E diff \in {Abs(r.value - get_current_value(current_array, index))} :
           /\ array_b' = IF ~swapped THEN [array_b EXCEPT ![index] = r.value]
                         ELSE array_b
           /\ array_a' = IF ~swapped THEN array_a
                         ELSE [array_a EXCEPT ![index] = r.value]
           /\ scratch' = [scratch EXCEPT ![p] = r.scratch]
           /\ process' = [process EXCEPT
                             ![p].index = index + 1,
                             ![p].value_sum = process[p].value_sum + r.value,
                             ![p].max_diff = IF diff > process[p].max_diff
                                             THEN diff ELSE process[p].max_diff]
    /\ process_only(p, "evaluate")
    /\ UNCHANGED <<policy, semaphore, max_differences, partial_values_sums,
                   partial_changed_actions>>

\* A worker that goes back to wait, without a release, when its range is empty
ProcessEvaluateEndEarly(p) ==
    /\ process[p].pc = "evaluate"
    /\ ~(process[p].index < process[p].end_index)
    /\ partial_values_sums' = [partial_values_sums EXCEPT ![p] = process[p].value_sum]
    /\ max_differences' = [max_differences EXCEPT ![p] = process[p].max_diff]
    /\ process' = [process EXCEPT
                      ![p].pc = IF process[p].start_index = process[p].end_index
                                THEN "policy_wait" ELSE "value_release"]
    /\ process_only(p, "value_release")
    /\ UNCHANGED <<policy, array_a, array_b, scratch, semaphore,
                   partial_changed_actions>>

\* evaluate_policy: the two writes after the loop
ProcessEvaluateEnd(p) ==
    /\ process[p].pc = "evaluate"
    /\ ~(process[p].index < process[p].end_index)
    /\ partial_values_sums' = [partial_values_sums EXCEPT ![p] = process[p].value_sum]
    /\ max_differences' = [max_differences EXCEPT ![p] = process[p].max_diff]
    /\ process' = [process EXCEPT ![p].pc = "value_release"]
    /\ process_only(p, "value_release")
    /\ UNCHANGED <<policy, array_a, array_b, scratch, semaphore,
                   partial_changed_actions>>

\* A worker that goes on without releasing the semaphore
ProcessNoRelease(p) ==
    /\ process[p].pc \in {"value_release", "policy_release"}
    /\ process' = [process EXCEPT
                      ![p].pc = IF process[p].pc = "value_release"
                                THEN "policy_wait" ELSE "value_wait"]
    /\ process_only(p, "released")
    /\ UNCHANGED <<policy, array_a, array_b, scratch, semaphore, max_differences,
                   partial_values_sums, partial_changed_actions>>

\* shared_data.semaphore.release(), after either sweep
ProcessRelease(p) ==
    /\ process[p].pc \in {"value_release", "policy_release"}
    /\ semaphore' = semaphore + 1
    /\ process' = [process EXCEPT
                      ![p].pc = IF process[p].pc = "value_release"
                                THEN "policy_wait" ELSE "value_wait"]
    /\ process_only(p, "released")
    /\ UNCHANGED <<policy, array_a, array_b, scratch, max_differences,
                   partial_values_sums, partial_changed_actions>>

\* A worker that does not wait for policy_event
ProcessPolicyNoWait(p) ==
    /\ process[p].pc = "policy_wait"
    /\ process' = [process EXCEPT ![p].pc = "improve",
                                  ![p].index = process[p].end_index - 1,
                                  ![p].changed_actions = 0]
    /\ process_only(p, "improve")
    /\ UNCHANGED <<policy, array_a, array_b, scratch, semaphore, max_differences,
                   partial_values_sums, partial_changed_actions>>

\* shared_data.policy_event.wait(), then the first lines of improve_policy
ProcessPolicyWait(p) ==
    /\ process[p].pc = "policy_wait"
    /\ policy_event
    /\ process' = [process EXCEPT ![p].pc = "improve",
                                  ![p].index = process[p].end_index - 1,
                                  ![p].changed_actions = 0]
    /\ process_only(p, "improve")
    /\ UNCHANGED <<policy, array_a, array_b, scratch, semaphore, max_differences,
                   partial_values_sums, partial_changed_actions>>

\* improve_policy: one pass of the loop body
ProcessImprove(p) ==
    /\ process[p].pc = "improve"
    /\ process[p].index > process[p].start_index - 1
    /\ \E index \in {process[p].index} :
       \E r \in {max_action(TRUE, valid_state(index), index, current_array,
                            [scratch[p] EXCEPT !.looked_up = {}])} :
       \E changed \in {r.action # policy[index]} :
           /\ policy' = IF changed THEN [policy EXCEPT ![index] = r.action] ELSE policy
           /\ scratch' = [scratch EXCEPT ![p] = r.scratch]
           /\ process' = [process EXCEPT
                             ![p].index = index - 1,
                             ![p].changed_actions =
                                 process[p].changed_actions + (IF changed THEN 1 ELSE 0)]
    /\ process_only(p, "improve")
    /\ UNCHANGED <<array_a, array_b, semaphore, max_differences, partial_values_sums,
                   partial_changed_actions>>

\* A worker that leaves its slot of partial_changed_actions as it was
ProcessImproveEndWithoutWrite(p) ==
    /\ process[p].pc = "improve"
    /\ ~(process[p].index > process[p].start_index - 1)
    /\ process' = [process EXCEPT ![p].pc = "policy_release"]
    /\ process_only(p, "policy_release")
    /\ UNCHANGED <<policy, array_a, array_b, scratch, semaphore, max_differences,
                   partial_values_sums, partial_changed_actions>>

\* improve_policy: the write after the loop, into an array of valid_state_space.type
ProcessImproveEnd(p) ==
    /\ process[p].pc = "improve"
    /\ ~(process[p].index > process[p].start_index - 1)
    /\ partial_changed_actions' =
           [partial_changed_actions EXCEPT
               ![p] = process[p].changed_actions
                          % Pow(2, 8 * select_type(valid_state_space.space_size))]
    /\ process' = [process EXCEPT ![p].pc = "policy_release"]
    /\ process_only(p, "policy_release")
    /\ UNCHANGED <<policy, array_a, array_b, scratch, semaphore, max_differences,
                   partial_values_sums>>

Manager ==
    \/ CheckStopConditions
    \/ PrepareTraindata
    \/ UpdateValueFunction
    \/ UpdatePolicy
    \/ Callback
    \/ WritePolicy
    \/ StartProcess
    \/ TerminateProcess
    \/ ValueEventSet
    \/ SemaphoreAcquire
    \/ ValueEventClear
    \/ SwapValueFunctions
    \/ ValueReduce
    \/ PolicyEventSet
    \/ PolicyEventClear
    \/ PolicyReduce

Process(p) ==
    \/ ProcessValueWait(p)
    \/ ProcessEvaluate(p)
    \/ ProcessEvaluateEnd(p)
    \/ ProcessRelease(p)
    \/ ProcessPolicyWait(p)
    \/ ProcessImprove(p)
    \/ ProcessImproveEnd(p)

\* one iteration of the loop of __start_sequential on the containers acc
start_sequential_iteration_end(v, u) ==
    [policy |-> u.policy, old_values |-> v.old_values, new_values |-> v.new_values,
     scratch |-> u.scratch, max_value_diff |-> v.max_value_diff,
     changed_actions_number |-> u.changed_actions_number]

start_sequential_iteration(acc) ==
    Eval(LAMBDA v :
             Eval(LAMBDA u : start_sequential_iteration_end(v, u),
                  update_policy(acc.policy, v.old_values, v.scratch)),
         update_value_function(acc.policy, acc.old_values, acc.new_values, acc.scratch))

\* what n iterations of __start_sequential leave, from the containers as
\* TrainManager.__init__ builds them
RECURSIVE start_sequential(_)
start_sequential(n) ==
    IF n = 0
    THEN [policy |-> [k \in 0 .. (valid_state_space.space_size - 1) |-> UP],
          old_values |-> Zeros(valid_state_space.space_size),
          new_values |-> Zeros(valid_state_space.space_size),
          scratch |-> Scratch0, max_value_diff |-> Inf,
          changed_actions_number |-> valid_state_space.space_size]
    ELSE Eval(start_sequential_iteration, start_sequential(n - 1))

Next ==
    \/ Manager
    \/ \E p \in DOMAIN process : Process(p)

Spec == Init /\ [][Next]_vars

\* The coordinator and every worker is an operating-system process of its own:
\* each of them goes on whenever it is not blocked on an event or on the semaphore.
Fairness ==
    /\ WF_vars(Manager)
    /\ \A p \in 0 .. (MaxProcesses - 1) : WF_vars(p \in DOMAIN process /\ Process(p))

FairInit == \E c \in SchedulingConfigs : TrainManagerInit(c)

FairSpec == FairInit /\ [][Next]_vars /\ Fairness

\* the runs under the sparse reward with the discount factor 1/2, of up to
\* MaxIterBound + 1 iterations, scheduled fairly
SparseConfigs ==
    { TrainConfigs(m, d, 1, "sparse", w, MaxIterBound + 1, 0, 0, NoTolerance, FALSE) :
        m \in Maps,
        d \in Distributions \cup {Distribution(2, 1, 1, 0), Distribution(1, 0, 1, 2)},
        w \in {1, 2} }

SparseInit ==
    \E c \in { c \in SparseConfigs :
                  validate(c) /\ check_for_errors(c.action_distribution) } :
        TrainManagerInit(c)

SparseSpec == SparseInit /\ [][Next]_vars /\ Fairness

\* runs on a row of seven cells of which the last three are free, and on a free
\* row of three cells.  The row of seven has 18 valid states with packed indices
\* up to 335 and select_type gives its array one byte: ValidStateSpaceSequential
\* raises OverflowError on it, so that only the parallel runs exist, on the
\* array mp.RawArray leaves.
UndersizedConfigs ==
    { TrainConfigs([map_size |-> Vec2D(7, 1), obstacles |-> <<Obstacle(0, 0, 4, 1)>>],
                   d, 1, "dense", 2, mi, 0, 0, NoTolerance, FALSE) :
        d \in {Distribution(2, 1, 0, 1), Distribution(4, 0, 0, 0)}, mi \in {1, 2} }
    \cup { TrainConfigs([map_size |-> Vec2D(3, 1), obstacles |-> <<>>],
                        Distribution(2, 1, 0, 1), 1, "dense", w, 1,
                        0, 0, NoTolerance, FALSE) : w \in {1, 2} }

UndersizedInit ==
    \E c \in { c \in UndersizedConfigs :
                  validate(c) /\ check_for_errors(c.action_distribution) } :
        TrainManagerInit(c)

UndersizedSpec == UndersizedInit /\ [][Next]_vars

\* the runs that differ in when they stop, scheduled fairly
StopInit ==
    \E c \in { c \in StopConfigs \cup EntryConfigs :
                  validate(c) /\ check_for_errors(c.action_distribution) } :
        TrainManagerInit(c)

FairStopSpec == StopInit /\ [][Next]_vars /\ Fairness

\* what a callback may write into the record it is given
CallbackWrites(fields) ==
    { [fields EXCEPT !.changed_actions_number = 0, !.max_value_diff = 0],
      [fields EXCEPT !.iteration_number = configs.max_iter] }

\* self.__callback(copy(self.__traindata)) with a registered callback that writes
\* into the record it is given: the write reaches self.__traindata when the
\* record is that object
CallbackModifies ==
    /\ pc = "callback"
    /\ \E t \in {copy(TrainDataObject)} :
       \E written \in CallbackWrites(t.fields) :
           /\ callback_log' = Append(callback_log, written)
           /\ traindata' = IF t.id = TrainDataObject.id THEN written ELSE traindata
    /\ pc' = "check"
    /\ shared_unchanged /\ containers_unchanged
    /\ UNCHANGED <<configs, valid_state_space, policy, scratch, loop_count,
                   policy_file, policy_before, stdout, call>>

NextCallback ==
    \/ Next
    \/ CallbackModifies

\* the runs that differ in when they stop, with any registered callback
CallbackSpec == StopInit /\ [][NextCallback]_vars

\* runs with more processes than valid states, and the same maps run by one
\* process: two free cells give four valid states, one free cell gives none
CrowdedConfigs ==
    { TrainConfigs(m, Distribution(2, 1, 0, 1), 1, "dense", w, MaxIterBound,
                   0, 0, NoTolerance, FALSE) :
        m \in {EmptyMap, [map_size |-> Vec2D(3, 1), obstacles |-> <<Obstacle(1, 0, 1, 1)>>]},
        w \in {1, MaxWorkers} }

CrowdedSpec ==
    /\ \E c \in { c \in CrowdedConfigs :
                      validate(c) /\ check_for_errors(c.action_distribution) } :
           TrainManagerInit(c)
    /\ [][Next]_vars
    /\ WF_vars(Manager)
    /\ \A p \in 0 .. (MaxWorkers - 1) : WF_vars(p \in DOMAIN process /\ Process(p))

\* process_main catches nothing: an exception raised inside a sweep ends the
\* worker process, which sets no flag and releases nothing
WorkerFault(p) ==
    /\ process[p].pc \in {"evaluate", "improve"}
    /\ process' = [process EXCEPT ![p].pc = "failed"]
    /\ UNCHANGED <<configs, valid_state_space, policy, old_values, new_values,
                   array_a, array_b, swapped, traindata, scratch, pc, loop_count,
                   value_event, policy_event, semaphore, max_differences,
                   partial_values_sums, partial_changed_actions, policy_file,
                   callback_log, policy_before, stdout, call>>

NextFault ==
    \/ Next
    \/ \E p \in DOMAIN process : WorkerFault(p)

FaultSpec == FairInit /\ [][NextFault]_vars /\ Fairness

(***************************************************************************)
(* Functions of the package called on their own.                           *)
(***************************************************************************)
\* no training run is under way
NoRun ==
    /\ configs = [processes_number |-> 1]
    /\ valid_state_space = [map_size |-> MapSize(0, 0), space_size |-> 0, array |-> NoArray]
    /\ policy = NoArray /\ policy_before = NoArray
    /\ old_values = NoArray /\ new_values = NoArray
    /\ array_a = NoArray /\ array_b = NoArray
    /\ swapped = FALSE
    /\ traindata = [iteration_number |-> 0]
    /\ scratch = NoArray /\ process = NoArray
    /\ pc = "done"
    /\ loop_count = 0
    /\ value_event = FALSE /\ policy_event = FALSE /\ semaphore = 0
    /\ max_differences = NoArray /\ partial_values_sums = NoArray
    /\ partial_changed_actions = NoArray
    /\ policy_file = <<>> /\ callback_log = <<>> /\ stdout = <<>>

\* a call leaves the variables of a training run alone
call_only ==
    /\ UNCHANGED <<configs, valid_state_space, policy, scratch, loop_count, pc,
                   traindata, policy_file, callback_log, policy_before, stdout>>
    /\ shared_unchanged /\ containers_unchanged

\* a call of f on args that has not returned yet
Called(f, args) == [op |-> f, args |-> args, returned |-> FALSE]

\* the calls of TrainManager.__get_processes_intervals: __init_parallel makes
\* them with the length of the valid state space and at least two processes
IntervalsCalls ==
    { Called("get_processes_intervals", [space_size |-> S, processes_number |-> n]) :
        S \in 0 .. MaxSpaceSize, n \in 2 .. MaxWorkers }

\* the maps the valid state space is built for on its own: rows of 3 to MaxCells
\* cells, free or with the first cell taken, and grids of two rows and columns
BuiltMaps ==
    { [map_size |-> Vec2D(n, 1), obstacles |-> o] :
        n \in 3 .. MaxCells, o \in {<<>>, <<Obstacle(0, 0, 1, 1)>>} }
    \cup { [map_size |-> Vec2D(2, 2), obstacles |-> <<Obstacle(1, 1, 1, 1)>>],
           [map_size |-> Vec2D(2, 2),
            obstacles |-> <<Obstacle(0, 0, 1, 2), Obstacle(0, 1, 2, 1)>>],
           [map_size |-> Vec2D(1, 3), obstacles |-> <<Obstacle(0, 1, 1, 1)>>],
           [map_size |-> Vec2D(2, 3), obstacles |-> <<Obstacle(1, 0, 1, 2)>>] }

\* the constructions of a ValidStateSpaceSequential or ValidStateSpaceParallel,
\* at the line before the loop of ValidStateSpace.__init__
ConstructionCalls ==
    { [op |-> "ValidStateSpace", returned |-> FALSE,
       args |-> [map_size |-> m.map_size, obstacles |-> m.obstacles,
                 sequential |-> b],
       acc |-> [state |-> State0, state_index |-> 0, index_list |-> <<>>,
                more |-> TRUE]] :
        m \in {m \in BuiltMaps :
                  /\ ~(m.map_size.x * m.map_size.y < 3 \/ m.map_size.x < 0)
                  /\ \A i \in 1 .. Len(m.obstacles) :
                        is_inside_bounds(m.obstacles[i], m.map_size)},
        b \in BOOLEAN }

\* the calls of get_valid_index, on every state of two of the maps
LookupCalls ==
    { Called("get_valid_index", [map_size |-> m.map_size, obstacles |-> m.obstacles,
                                 state |-> State(a, o, t)]) :
        m \in {m \in BuiltMaps : m.map_size.x * m.map_size.y = 3
                                   /\ m.obstacles # <<>>},
        a \in {Vec2D(x, y) : x \in 0 .. 2, y \in 0 .. 2},
        o \in {Vec2D(x, y) : x \in 0 .. 2, y \in 0 .. 2},
        t \in {Vec2D(x, y) : x \in 0 .. 2, y \in 0 .. 2} }

\* the conversions of a State to its index and back, and of an index to its
\* State and back, on the grids of BuiltMaps
ConversionCalls ==
    UNION { LET ms == MapSize(m.map_size.x, m.map_size.y)
                cells == { Vec2D(x, y) : x \in 0 .. (ms.N - 1), y \in 0 .. (ms.M - 1) }
            IN  { [op |-> "State", map_size |-> ms, given |-> State(a, o, t),
                   state |-> State(a, o, t), index |-> -1,
                   todo |-> <<"to_index", "from_index">>] :
                    a \in cells, o \in cells, t \in cells }
                \cup { [op |-> "State", map_size |-> ms, given |-> i,
                        state |-> State0, index |-> i,
                        todo |-> <<"from_index", "to_index">>] :
                         i \in 0 .. (ms.N3M3 - 1) } :
            m \in BuiltMaps }

\* the constructions of a DiscreteDistributionMarkovTransitionDensity from
\* four probabilities between -1/4 and 5/4
DensityCalls ==
    { [op |-> "DiscreteDistributionMarkovTransitionDensity", returned |-> FALSE,
       args |-> Distribution(c, r, o, l)] :
        c \in -1 .. (PDen + 1), r \in -1 .. (PDen + 1),
        o \in -1 .. (PDen + 1), l \in -1 .. (PDen + 1) }

\* the array that holds the numbers of S in increasing order
IncreasingArray(S) ==
    [k \in 0 .. (Cardinality(S) - 1) |->
        CHOOSE x \in S : Cardinality({y \in S : y < x}) = k]

\* the calls of ValidStateSpace.__binary_search: every strictly increasing array
\* of entries up to MaxEntry, the empty one included, and every query from one
\* below the least entry to one above the greatest
SearchCalls ==
    { Called("binary_search", [array |-> IncreasingArray(S), state_index |-> q]) :
        S \in SUBSET (0 .. MaxEntry), q \in -1 .. (MaxEntry + 1) }

CallInit ==
    /\ NoRun
    /\ call \in IntervalsCalls \cup ConstructionCalls \cup LookupCalls
                 \cup ConversionCalls
                 \cup DensityCalls
                 \cup SearchCalls

\* the call of TrainManager.__get_processes_intervals returns
ReturnProcessesIntervals ==
    /\ call.op = "get_processes_intervals" /\ ~call.returned
    /\ call' = [op |-> call.op, args |-> call.args, returned |-> TRUE,
                result |-> get_processes_intervals(call.args.space_size,
                                                   call.args.processes_number)]
    /\ UNCHANGED <<configs, valid_state_space, policy, scratch, loop_count, pc,
                   traindata, policy_file, callback_log, policy_before, stdout>>
    /\ shared_unchanged /\ containers_unchanged

\* ValidStateSpace.__init__: one pass of the loop that fills index_list
IndexListPass ==
    /\ call.op = "ValidStateSpace" /\ ~call.returned
    /\ call.acc.more
    /\ call' = [call EXCEPT
                   !.acc = index_list_pass(call.acc,
                               next_state(call.acc.state,
                                          MapSize(call.args.map_size.x,
                                                  call.args.map_size.y)),
                               call.args.obstacles)]
    /\ call_only

\* ValidStateSpace.__init__: the lines after the loop
ReturnValidStateSpace ==
    /\ call.op = "ValidStateSpace" /\ ~call.returned
    /\ ~call.acc.more
    /\ call' = [call EXCEPT
                   !.returned = TRUE,
                   !.acc = [space_size |-> Len(call.acc.index_list),
                            index_list |-> call.acc.index_list,
                            type |-> select_type(Len(call.acc.index_list)),
                            array |-> get_collection(call.args.sequential,
                                          call.acc.index_list,
                                          select_type(Len(call.acc.index_list)))]]
    /\ call_only

\* ValidStateSpace.get_valid_index returns
ReturnGetValidIndex ==
    /\ call.op = "get_valid_index" /\ ~call.returned
    /\ call' = [op |-> call.op, args |-> call.args, returned |-> TRUE,
                result |-> [returns |->
                    get_valid_index(
                        ValidStateSpaceObject(call.args.map_size, call.args.obstacles),
                        call.args.state).returns]]
    /\ call_only

\* the call of ValidStateSpace.__binary_search returns
ReturnBinarySearch ==
    /\ call.op = "binary_search" /\ ~call.returned
    /\ call' = [op |-> call.op, args |-> call.args, returned |-> TRUE,
                result |-> [returns |->
                    binary_search(call.args.array, call.args.state_index)]]
    /\ call_only

\* State.to_index: the index is all that is kept for the next conversion
StateToIndex ==
    /\ call.op = "State" /\ call.todo # <<>> /\ Head(call.todo) = "to_index"
    /\ call' = [call EXCEPT !.index = to_index(call.state, call.map_size),
                            !.state = State0,
                            !.todo = Tail(@)]
    /\ call_only

\* State.from_index: the State is all that is kept for the next conversion
StateFromIndex ==
    /\ call.op = "State" /\ call.todo # <<>> /\ Head(call.todo) = "from_index"
    /\ call' = [call EXCEPT !.state = from_index(call.index, call.map_size),
                            !.index = -1,
                            !.todo = Tail(@)]
    /\ call_only

\* DiscreteDistributionMarkovTransitionDensity.__init__ raises, or returns the
\* functor, kept as the table of what __call__ returns
ReturnDensity ==
    /\ call.op = "DiscreteDistributionMarkovTransitionDensity" /\ ~call.returned
    /\ call' =
          IF ~check_for_errors(call.args)
          THEN [op |-> call.op, args |-> call.args, returned |-> TRUE,
                raises |-> "ValueError"]
          ELSE [op |-> call.op, args |-> call.args, returned |-> TRUE,
                returns |-> [chosen_action \in Actions |->
                               [action \in Actions |->
                                   transition_density(call.args, chosen_action, action)]]]
    /\ call_only

CallNext ==
    \/ ReturnProcessesIntervals
    \/ StateToIndex
    \/ StateFromIndex
    \/ IndexListPass
    \/ ReturnValidStateSpace
    \/ ReturnGetValidIndex
    \/ ReturnBinarySearch
    \/ ReturnDensity

CallSpec == CallInit /\ [][CallNext]_vars

(***************************************************************************)
(* valid_state_space.py: sequences of lookups on one ValidStateSpace       *)
(***************************************************************************)
\* the objects looked into: a column of three cells, whose caches hold three
\* entries, and a ValidStateSpaceParallel of a row of MaxCells cells of which
\* the last three are free
CacheInit ==
    /\ NoRun
    /\ call \in
          { [op |-> "lookups", lookups |-> 0, max_lookups |-> MaxLookups,
             map_size |-> MapSize(m.map_size.x, m.map_size.y),
             space_size |-> space_size_of(ValidStateSpaceArray(m.map_size, m.obstacles)),
             array |-> ValidStateSpaceArray(m.map_size, m.obstacles),
             max_cache_length |-> 3 * m.map_size.x,
             valid_cache |-> <<>>, not_valid_cache |-> <<>>] :
              m \in { [map_size |-> Vec2D(1, 3), obstacles |-> <<Obstacle(0, 1, 1, 1)>>],
                      [map_size |-> Vec2D(MaxCells, 1),
                       obstacles |-> <<Obstacle(0, 0, MaxCells - 3, 1)>>] } }

\* a call of get_valid_index on a state of the grid
LookupValidIndex ==
    /\ call.op = "lookups" /\ call.lookups < call.max_lookups
    /\ \E i \in 0 .. (call.map_size.N3M3 - 1) :
           call' = [get_valid_index_cached(call,
                        to_index(from_index(i, call.map_size), call.map_size))
                    EXCEPT !.lookups = @ + 1]
    /\ call_only

\* a call of is_state_outside_obstacles on a state of the grid
LookupOutsideObstacles ==
    /\ call.op = "lookups" /\ call.lookups < call.max_lookups
    /\ \E i \in 0 .. (call.map_size.N3M3 - 1) :
           call' = [is_state_outside_obstacles_cached(call,
                        to_index(from_index(i, call.map_size), call.map_size))
                    EXCEPT !.lookups = @ + 1]
    /\ call_only

CacheNext ==
    \/ LookupValidIndex
    \/ LookupOutsideObstacles

CacheSpec == CacheInit /\ [][CacheNext]_vars

\* longer sequences of calls on a column of three cells, free or with an
\* obstacle, whose caches hold three entries
EvictionInit ==
    /\ NoRun
    /\ call \in
          { [op |-> "lookups", lookups |-> 0, max_lookups |-> MaxLookups + 2,
             map_size |-> MapSize(m.map_size.x, m.map_size.y),
             space_size |-> space_size_of(ValidStateSpaceArray(m.map_size, m.obstacles)),
             array |-> ValidStateSpaceArray(m.map_size, m.obstacles),
             max_cache_length |-> 3 * m.map_size.x,
             valid_cache |-> <<>>, not_valid_cache |-> <<>>] :
              m \in { [map_size |-> Vec2D(1, 3), obstacles |-> <<>>],
                      [map_size |-> Vec2D(1, 3), obstacles |-> <<Obstacle(0, 1, 1, 1)>>] } }

EvictionSpec == EvictionInit /\ [][CacheNext]_vars

(***************************************************************************)
(* A game session: GameConfigs, GameManager and MovingEntity.              *)
(***************************************************************************)
\* game_manager.py: Result
FAIL == 0
SUCCESS == 1
WAITING_FOR_RESULT == 2

\* ValidStateSpace.is_state_within_bounds
is_state_within_bounds(state, ms) ==
    \A pos \in {state.agent_pos, state.opponent_pos, state.target_pos} :
        pos.x > -1 /\ pos.x < ms.N /\ pos.y > -1 /\ pos.y < ms.M

\* GameConfigs._check_helper
game_check_helper(c) ==
    /\ c.agent_start # c.target_start
    /\ c.agent_start # c.opponent_start
    /\ c.target_start # c.opponent_start
    /\ \A pos \in {c.agent_start, c.target_start, c.opponent_start} :
          ~(pos.x < 0 \/ pos.x >= c.map_size.x \/ pos.y < 0 \/ pos.y >= c.map_size.y)
    /\ \A pos \in {c.agent_start, c.target_start, c.opponent_start} :
          \A i \in 1 .. Len(c.obstacles) : ~is_inside(c.obstacles[i], pos)

\* A move that is kept whatever state it leads to
move_never_undone(game, entity, actual_action) ==
    [game EXCEPT !.state[entity] = move(@, actual_action)]

\* MovingEntity.move from pos.move on: the game after the entity whose
\* position is the field entity of the state has done actual_action
MovingEntity_move(game, entity, actual_action) ==
    LET moved == [game.state EXCEPT ![entity] = move(@, actual_action)]
        within == is_state_within_bounds(moved, game.map_size)
        state_index == to_index(moved, game.map_size)
    IN  IF ~within
        THEN [game EXCEPT !.state = [moved EXCEPT ![entity] = undo(@, actual_action)]]
        ELSE [is_state_outside_obstacles_cached(game, state_index) EXCEPT
                 !.state = IF is_state_outside_obstacles_result(game, state_index)
                           THEN moved
                           ELSE [moved EXCEPT ![entity] = undo(@, actual_action)]]

\* MovingEntity.__get_next_action: the actions random.choices can return
get_next_action(action_distribution, chosen_action) ==
    { a \in Actions : transition_density(action_distribution, chosen_action, a) > 0 }

\* GameManager.__check_for_result: the result it leaves in res
check_for_result(state, res) ==
    IF state.agent_pos = state.target_pos THEN SUCCESS
    ELSE IF state.agent_pos = state.opponent_pos THEN FAIL
    ELSE res

\* GameData()
GameData0 ==
    [state |-> State0, agent_action |-> MAX_EXCLUSIVE,
     target_action |-> MAX_EXCLUSIVE, opponent_action |-> MAX_EXCLUSIVE]

\* the game configurations: a map, the three starts on or next to it, the
\* density of the agent, and a policy file path that is empty (the default)
\* or names a file holding UP or RIGHT for every valid state.  The target and
\* the opponent keep their defaults: UniformPolicy and a density that gives
\* the opposite of the chosen action the probability 0.
GameConfigsSet ==
    { [map_size |-> m.map_size, obstacles |-> m.obstacles,
       agent_start |-> s[1], target_start |-> s[2], opponent_start |-> s[3],
       action_distribution |-> d, policy_file_path |-> f[1], policy_file |-> f[2]] :
        m \in { [map_size |-> Vec2D(3, 1), obstacles |-> <<>>],
                [map_size |-> Vec2D(2, 2), obstacles |-> <<Obstacle(1, 1, 1, 1)>>],
                [map_size |-> Vec2D(4, 2), obstacles |-> <<Obstacle(0, 0, 1, 2)>>] },
        s \in { <<Vec2D(0, 0), Vec2D(1, 0), Vec2D(2, 0)>>,
                <<Vec2D(1, 0), Vec2D(0, 0), Vec2D(0, 1)>>,
                <<Vec2D(2, 0), Vec2D(1, 0), Vec2D(0, 0)>>,
                <<Vec2D(0, 1), Vec2D(1, 0), Vec2D(0, 0)>>,
                <<Vec2D(1, 0), Vec2D(2, 0), Vec2D(3, 0)>>,
                <<Vec2D(0, 0), Vec2D(1, 0), Vec2D(1, 0)>>,
                <<Vec2D(0, 0), Vec2D(1, 1), Vec2D(1, 0)>> },
        d \in { Distribution(2, 1, 0, 1) },
        f \in { <<"", UP>> } \cup { <<"policy.bin", a>> : a \in {UP, RIGHT} } }

GameInit ==
    /\ NoRun
    /\ call \in { [op |-> "game", pc |-> "init", configs |-> c] : c \in GameConfigsSet }

\* GameManager.__init__: validate() checks the configuration and creates the
\* valid state space and the policy of the agent, then the session is set up
GameManagerInit ==
    /\ call.op = "game" /\ call.pc = "init"
    /\ LET c == call.configs
           indices == index_list(MapSize(c.map_size.x, c.map_size.y), c.obstacles)
           collection == get_collection(TRUE, indices, select_type(Len(indices)))
       IN  call' =
             IF ~( /\ ~(c.map_size.x * c.map_size.y < 3 \/ c.map_size.x < 0)
                   /\ \A i \in 1 .. Len(c.obstacles) :
                         is_inside_bounds(c.obstacles[i], c.map_size)
                   /\ game_check_helper(c) )
             THEN [op |-> "game", pc |-> "raised", configs |-> c, raises |-> "ValueError"]
             ELSE IF "raises" \in DOMAIN collection
             THEN [op |-> "game", pc |-> "raised", configs |-> c,
                   raises |-> collection.raises]
             ELSE IF c.policy_file_path = ""
             THEN [op |-> "game", pc |-> "raised", configs |-> c,
                   raises |-> "FileNotFoundError"]
             ELSE [op |-> "game", pc |-> "start", configs |-> c,
                   map_size |-> MapSize(c.map_size.x, c.map_size.y),
                   space_size |-> Len(indices), array |-> collection.returns,
                   max_cache_length |-> 3 * c.map_size.x,
                   valid_cache |-> <<>>, not_valid_cache |-> <<>>,
                   agent_policy |-> "AgentPolicy",
                   policy |-> [k \in 0 .. (Len(indices) - 1) |-> c.policy_file],
                   state |-> State(c.agent_start, c.opponent_start, c.target_start),
                   res |-> WAITING_FOR_RESULT, gamedata |-> GameData0,
                   moved |-> <<>>, returned |-> -1]
    /\ call_only

\* GameManager.start: the test of the loop, and the copy of the state that
\* opens an iteration or the GameData that follows the last one
StartLoop ==
    /\ call.op = "game" /\ call.pc = "start"
    /\ call' = IF call.res = WAITING_FOR_RESULT
               THEN [call EXCEPT !.pc = "agent", !.moved = <<>>,
                                 !.gamedata.state = call.state]
               ELSE [call EXCEPT !.pc = "return",
                                 !.gamedata = [GameData0 EXCEPT !.state = call.state]]
    /\ call_only

\* An iteration that goes on to the target whatever the move of the agent led to
AgentMoveUnchecked ==
    /\ call.op = "game" /\ call.pc = "agent"
    /\ LET state_index == to_index(call.state, call.map_size)
           valid_index == get_valid_index_result(call, state_index)
           chosen_action ==
               call.policy[IF valid_index < 0 THEN call.space_size + valid_index
                           ELSE valid_index]
       IN  \E actual_action \in get_next_action(call.configs.action_distribution,
                                                chosen_action) :
               call' = [MovingEntity_move(get_valid_index_cached(call, state_index),
                                          "agent_pos", actual_action)
                        EXCEPT !.gamedata.agent_action = chosen_action,
                               !.moved = Append(@, "agent"), !.pc = "target"]
    /\ call_only

\* GameManager.__next_iteration: the move of the agent and the check after it
AgentMove ==
    /\ call.op = "game" /\ call.pc = "agent"
    /\ LET state_index == to_index(call.state, call.map_size)
           valid_index == get_valid_index_result(call, state_index)
           chosen_action ==
               call.policy[IF valid_index < 0 THEN call.space_size + valid_index
                           ELSE valid_index]
       IN  \E actual_action \in get_next_action(call.configs.action_distribution,
                                                chosen_action) :
               LET after == MovingEntity_move(get_valid_index_cached(call, state_index),
                                              "agent_pos", actual_action)
                   res == check_for_result(after.state, after.res)
               IN  call' = [after EXCEPT !.gamedata.agent_action = chosen_action,
                                         !.moved = Append(@, "agent"), !.res = res,
                                         !.pc = IF res # after.res THEN "start"
                                                ELSE "target"]
    /\ call_only

\* GameManager.__next_iteration: the move of the target
TargetMove ==
    /\ call.op = "game" /\ call.pc = "target"
    /\ \E chosen_action \in Actions :
       \E actual_action \in get_next_action(Distribution(2, 1, 0, 1), chosen_action) :
           call' = [MovingEntity_move(call, "target_pos", actual_action)
                    EXCEPT !.gamedata.target_action = chosen_action,
                           !.moved = Append(@, "target"), !.pc = "opponent"]
    /\ call_only

\* GameManager.__next_iteration: the move of the opponent and the last check
OpponentMove ==
    /\ call.op = "game" /\ call.pc = "opponent"
    /\ \E chosen_action \in Actions :
       \E actual_action \in get_next_action(Distribution(2, 1, 0, 1), chosen_action) :
           LET after == MovingEntity_move(call, "opponent_pos", actual_action)
           IN  call' = [after EXCEPT !.gamedata.opponent_action = chosen_action,
                                     !.moved = Append(@, "opponent"),
                                     !.res = check_for_result(after.state, after.res),
                                     !.pc = "start"]
    /\ call_only

\* GameManager.start: return self.__res
StartReturn ==
    /\ call.op = "game" /\ call.pc = "return"
    /\ call' = [call EXCEPT !.pc = "returned", !.returned = call.res]
    /\ call_only

GameNext ==
    \/ GameManagerInit
    \/ StartLoop
    \/ AgentMove
    \/ TargetMove
    \/ OpponentMove
    \/ StartReturn

GameSpec == GameInit /\ [][GameNext]_vars

(***************************************************************************)
(* The runs of the TrainManagers constructed from configurations that      *)
(* validate() accepts or rejects.                                          *)
(***************************************************************************)
\* the configurations a TrainManager is constructed from: maps with too few
\* cells, with dimensions that are not positive, with an obstacle that
\* leaves the map, with one free cell, and the maps of the runs; densities
\* that sum to 1, that do not, and with a negative probability; discount
\* factors from -1/2 to 3/2; 0 to 2 processes; 0 or MaxIterBound iterations;
\* a tolerance of -1 or 0
ConstructConfigs ==
    { TrainConfigs(m, d, g, "sparse", w, mi, vt, 0, NoTolerance, FALSE) :
        m \in Maps \cup { EmptyMap,
                          [map_size |-> Vec2D(2, 1), obstacles |-> <<>>],
                          [map_size |-> Vec2D(0, 3), obstacles |-> <<>>],
                          [map_size |-> Vec2D(-1, -3), obstacles |-> <<>>],
                          [map_size |-> Vec2D(3, -1), obstacles |-> <<>>],
                          [map_size |-> Vec2D(3, 1),
                           obstacles |-> <<Obstacle(2, 0, 2, 1)>>] },
        d \in { Distribution(2, 1, 0, 1), Distribution(3, 1, 0, 1),
                Distribution(5, 0, -1, 0) },
        g \in -1 .. (GDen + 1), w \in 0 .. 2, mi \in {0, MaxIterBound},
        vt \in {-1, 0} }

\* TrainManager.__init__: validate() raises ValueError and no manager exists,
\* or the manager is built
ConstructInit ==
    \E c \in ConstructConfigs :
        IF validate(c) /\ check_for_errors(c.action_distribution)
        THEN TrainManagerInit(c)
        ELSE /\ NoRun
             /\ call = [op |-> "raised", configs |-> c, raises |-> "ValueError"]

ConstructSpec == ConstructInit /\ [][Next]_vars

(***************************************************************************)
(* base_configs.py: ConfigArgument, the setters and the file directives.   *)
(***************************************************************************)
\* a Python value with its type
Value(type, value) == [type |-> type, value |-> value]

\* isinstance(value, type): a bool is an int
isinstance(value, type) ==
    value.type = type \/ (value.type = "bool" /\ type = "int")

\* ConfigArgument.__init__
ConfigArgument(value) == [value |-> value, frozen |-> FALSE]

\* ConfigArgument.set_and_freeze: the argument it leaves
set_and_freeze(argument, value) ==
    IF isinstance(value, argument.value.type)
    THEN [value |-> value, frozen |-> TRUE]
    ELSE argument

\* ConfigArgument.set_if_not_frozen: the argument it leaves
set_if_not_frozen(argument, value) ==
    IF ~argument.frozen THEN [argument EXCEPT !.value = value] ELSE argument

\* a TrainConfigs as __init__ leaves it, with what has been done to it since:
\* for every field the values the setter was called with and the values of
\* the file directives for it
ConfigsInit ==
    /\ NoRun
    /\ call = [op |-> "TrainConfigs",
               discount_factor |-> ConfigArgument(Value("float", 2)),
               max_iter |-> ConfigArgument(Value("int", 100)),
               obstacles |-> ConfigArgument(Value("list", <<>>)),
               set |-> [f \in {"discount_factor", "max_iter", "obstacles"} |-> <<>>],
               directives |-> [f \in {"discount_factor", "max_iter", "obstacles"} |-> <<>>],
               printed |-> 0]

\* what callers give to the setters: discount factors as floats (in quarters)
\* and as the int 1, iteration numbers as an int, as the bool True (1) and
\* as a float,
\* obstacle lists
SetterValues ==
    [discount_factor |-> {Value("float", 1), Value("float", 4), Value("int", 1)},
     max_iter |-> {Value("int", 10), Value("bool", 1), Value("float", 10)},
     obstacles |-> {Value("list", <<>>), Value("list", <<Obstacle(0, 0, 1, 1)>>)}]

\* the property setters of BaseConfigs and TrainConfigs
SetterCall ==
    /\ call.op = "TrainConfigs"
    /\ Len(call.set.discount_factor) + Len(call.set.max_iter) + Len(call.set.obstacles)
       + Len(call.directives.discount_factor) + Len(call.directives.max_iter)
       + Len(call.directives.obstacles) < MaxSettings
    /\ \E f \in DOMAIN SetterValues : \E value \in SetterValues[f] :
           call' = [call EXCEPT ![f] = set_and_freeze(@, value),
                                !.set[f] = Append(@, value),
                                !.printed = IF isinstance(value, call[f].value.type)
                                            THEN @ ELSE @ + 1]
    /\ call_only

\* BaseConfigs.__process_line and TrainConfigs._process_line_helper on the
\* lines "discount d", "maxiter n" and "obstacle x y w h"
ProcessLine ==
    /\ call.op = "TrainConfigs"
    /\ Len(call.set.discount_factor) + Len(call.set.max_iter) + Len(call.set.obstacles)
       + Len(call.directives.discount_factor) + Len(call.directives.max_iter)
       + Len(call.directives.obstacles) < MaxSettings
    /\ \/ \E d \in {2, 3} :
             call' = [call EXCEPT
                        !.discount_factor = set_if_not_frozen(@, Value("float", d)),
                        !.directives.discount_factor = Append(@, Value("float", d))]
       \/ \E n \in {20, 30} :
             call' = [call EXCEPT
                        !.max_iter = set_if_not_frozen(@, Value("int", n)),
                        !.directives.max_iter = Append(@, Value("int", n))]
       \/ \E o \in {Obstacle(1, 0, 1, 1), Obstacle(2, 0, 1, 1)} :
             call' = [call EXCEPT
                        !.obstacles.value.value =
                            IF ~call.obstacles.frozen THEN Append(@, o) ELSE @,
                        !.directives.obstacles = Append(@, o)]
    /\ call_only

ConfigsNext ==
    \/ SetterCall
    \/ ProcessLine

ConfigsSpec == ConfigsInit /\ [][ConfigsNext]_vars

\* the current values are multiples that keep the next update exact
ExactArithmetic ==
    LET cur == IF W = 1 THEN old_values ELSE current_array
    IN  \A k \in DOMAIN cur : cur[k] % (PDen * GDen) = 0

(***************************************************************************)
(* The properties                                                          *)
(***************************************************************************)
Parallel == W > 1

Processes == DOMAIN process

InValueSweep(p) == process[p].pc = "evaluate"

InPolicySweep(p) == process[p].pc = "improve"

\* C1: in parallel mode, whenever the coordinator is about to execute
\* swap_value_functions, every worker has finished its value sweep and released
\* the semaphore, none has started its policy sweep (each is blocked on a
\* policy_event that is not set), so no worker reads or writes a value buffer
\* while the swap takes place.
C1_SwapBetweenPhases ==
    (Parallel /\ pc = "swap") =>
        /\ ~policy_event
        /\ ~value_event
        /\ \A p \in Processes : process[p].pc = "policy_wait"

\* the coordinator is at the swap of the second iteration
C1_Witness ==
    Parallel /\ pc = "swap" /\ swapped /\ traindata.iteration_number = 2

\* C2: in parallel mode the policy array is written only during the policy
\* phase: while some worker is inside evaluate_policy no worker is inside
\* improve_policy and the coordinator is waiting at the value barrier, and the
\* policy changes only in steps taken while the coordinator waits at the policy
\* barrier, so a value sweep reads the policy the previous policy barrier left.
C2_PolicyWrittenInPolicyPhase ==
    /\ [](Parallel /\ (\E p \in Processes : InValueSweep(p)) =>
            /\ \A q \in Processes : ~InPolicySweep(q)
            /\ pc = "value_acquire")
    /\ [][Parallel /\ policy' # policy =>
            /\ pc = "policy_acquire" /\ pc' = "policy_acquire"
            /\ \A q \in Processes : ~InValueSweep(q)]_vars

\* a worker is inside the value sweep of the second iteration, reading a policy
\* that the first policy sweep changed
C2_Witness ==
    /\ Parallel
    /\ traindata.iteration_number = 2
    /\ \E p \in Processes : InValueSweep(p) /\ process[p].index > process[p].start_index
    /\ \E k \in DOMAIN policy : policy[k] # UP

\* the slots of f that a step changes
Written(f, g) == { k \in DOMAIN f : g[k] # f[k] }

\* C3: in parallel mode the intervals of the workers are disjoint and lie within
\* the valid indices, the index a worker is about to write lies in its interval,
\* and a step that changes a slot of the policy, of a value buffer or of a
\* reduction array is a step of the one worker that owns the slot.
C3_WritesWithinInterval ==
    /\ [](Parallel =>
            /\ \A p \in Processes :
                  /\ 0 <= process[p].start_index
                  /\ process[p].start_index <= process[p].end_index
                  /\ process[p].end_index <= valid_state_space.space_size
                  /\ (InValueSweep(p) /\ process[p].index < process[p].end_index)
                        => process[p].start_index <= process[p].index
                  /\ (InPolicySweep(p) /\ process[p].index > process[p].start_index - 1)
                        => process[p].index < process[p].end_index
            /\ \A p, q \in Processes :
                  p < q => process[p].end_index <= process[q].start_index)
    /\ [][Parallel =>
            /\ \A k \in Written(policy, policy') \cup Written(array_a, array_a')
                           \cup Written(array_b, array_b') :
                  \E p \in Processes :
                      /\ process[p].pc \in {"evaluate", "improve"}
                      /\ process'[p] # process[p]
                      /\ \A q \in Processes \ {p} : process'[q] = process[q]
                      /\ process[p].start_index <= k /\ k < process[p].end_index
            /\ \A w \in Written(max_differences, max_differences')
                           \cup Written(partial_values_sums, partial_values_sums')
                           \cup Written(partial_changed_actions, partial_changed_actions') :
                  /\ process[w].pc \in {"evaluate", "improve"}
                  /\ process'[w] # process[w]
                  /\ \A q \in Processes \ {w} : process'[q] = process[q]]_vars

\* two workers are both in the middle of their value sweeps and each has
\* written a slot of the next value buffer
C3_Witness ==
    /\ Parallel
    /\ \E p, q \in Processes :
          /\ p # q
          /\ InValueSweep(p) /\ process[p].index > process[p].start_index
          /\ InValueSweep(q) /\ process[q].index > process[q].start_index
          /\ next_array[process[p].start_index] # 0
          /\ next_array[process[q].start_index] # 0

AllTerminated == \A p \in Processes : process[p].pc = "terminated"

\* where the coordinator is from the start of an iteration to its callback; the
\* two barriers are "value_acquire" and "policy_acquire"
IterationSteps ==
    {"prepare", "value_set", "value_acquire", "value_clear", "swap", "value_reduce",
     "policy_set", "policy_acquire", "policy_clear", "policy_reduce"}

\* C4: in parallel mode, with the coordinator and every worker scheduled fairly,
\* each iteration the coordinator starts runs to completion: wherever the
\* coordinator is in an iteration, at a barrier included, it eventually reaches
\* the callback that ends the iteration.
C4_IterationsComplete ==
    (Parallel /\ pc \in IterationSteps) ~> (pc = "callback")

\* the second iteration of a parallel run has passed both barriers
C4_Witness ==
    /\ Parallel /\ pc = "callback" /\ traindata.iteration_number = 2
    /\ semaphore = 0 /\ ~value_event /\ ~policy_event

\* C5: if a worker fails inside a sweep, the coordinator does not wait forever
\* on the semaphore: it eventually terminates all the workers.
C5_FailureSurfaced ==
    (\E p \in Processes : process[p].pc = "failed") ~> AllTerminated

\* C6: in parallel mode a worker process ends only when the coordinator
\* terminates it, after the loop; the policy file is written only when every
\* worker has been terminated; and once the loop has ended the coordinator
\* terminates every worker and finishes.
C6_WorkersTerminatedByCoordinator ==
    /\ [](Parallel /\ (pc \in {"write", "done"} \/ Len(policy_file) > 0)
            => AllTerminated)
    /\ [][Parallel =>
            \A p \in Processes :
                (process[p].pc # "terminated" /\ process'[p].pc = "terminated")
                    => (pc = "terminate" /\ loop_count = p)]_vars
    /\ (Parallel /\ pc = "terminate") ~> (AllTerminated /\ pc = "done")

\* a parallel run has written its policy file
C6_Witness ==
    Parallel /\ pc = "done" /\ Len(policy_file) = 1 /\ AllTerminated

\* an iteration has just ended: both sweeps are done and the statistics are set
IterationDone == pc = "callback"

\* C7: after every iteration of a parallel run the policy table, the number of
\* changed actions and max_value_diff are those the sequential iterator leaves
\* after the same number of iterations on the same configuration.
C7_SequentialParallelAgree ==
    (Parallel /\ IterationDone) =>
        \A s \in {start_sequential(traindata.iteration_number)} :
            /\ policy = s.policy
            /\ traindata.changed_actions_number = s.changed_actions_number
            /\ traindata.max_value_diff = s.max_value_diff

\* the agent of state moved by action, staying where it is when that leaves the grid
AgentMoved(state, action) ==
    [state EXCEPT !.agent_pos =
        IF is_inside([origin |-> Vec2D(0, 0), extent |-> configs.map_size],
                     move(state.agent_pos, action))
        THEN move(state.agent_pos, action) ELSE state.agent_pos]

\* the valid states, and the valid index of one of them
IsValidState(state) ==
    \E i \in DOMAIN valid_state_space.array :
        valid_state(i) = state

ValidIndexOf(state) ==
    CHOOSE i \in DOMAIN valid_state_space.array : valid_state(i) = state

\* n(a) of the formula: the valid index reached from the k-th valid state by
\* moving the agent by a, or k when the move leaves the grid or enters an obstacle
NextIndex(k, a) ==
    IF IsValidState(AgentMoved(valid_state(k), a))
    THEN ValidIndexOf(AgentMoved(valid_state(k), a))
    ELSE k

\* r(S, S + a*) + gamma * sum over a of p(a*, a) * V[n(a)], with p(a*, a) the
\* distribution entry at position (a - a*) mod 4
BellmanValue(k, chosen, V) ==
    reward(valid_state(k), AgentMoved(valid_state(k), chosen))
    + (configs.discount_factor
          * SumOver([a \in Actions |->
                configs.action_distribution[(a - chosen) % MAX_EXCLUSIVE]
                    * V[NextIndex(k, a)]]))
      \div (PDen * GDen)

\* C8: the value a value sweep writes for the valid index k is the Bellman value
\* of the formula, in the sequential sweep (read after it, when the buffers have
\* been swapped) and in the parallel sweep (read when every worker is done and
\* the coordinator is about to swap).
C8_ValueSweepWritesBellmanValue ==
    /\ (~Parallel /\ pc = "update_policy") =>
           \A k \in DOMAIN policy :
               old_values[k] = BellmanValue(k, policy[k], new_values)
    /\ (Parallel /\ pc = "swap") =>
           \A k \in DOMAIN policy :
               next_array[k] = BellmanValue(k, policy[k], current_array)

\* the action leaves the agent of the k-th valid state in the grid and outside
\* every obstacle
ActionIsValid(k, a) ==
    /\ is_inside([origin |-> Vec2D(0, 0), extent |-> configs.map_size],
                 move(valid_state(k).agent_pos, a))
    /\ \A i \in 1 .. Len(configs.obstacles) :
          ~is_inside(configs.obstacles[i], move(valid_state(k).agent_pos, a))

\* C9: after every policy sweep, for every valid index k, the action of the
\* policy applied to the agent of the k-th valid state neither leaves the grid
\* nor enters an obstacle, on every validated map, the states whose agent cell
\* has no free neighbouring cell included.
C9_EveryPolicyActionValid ==
    IterationDone => \A k \in DOMAIN policy : ActionIsValid(k, policy[k])

\* the four stop conditions, on the statistics in traindata
StopConditionHolds ==
    \/ traindata.iteration_number >= configs.max_iter
    \/ traindata.max_value_diff <= configs.value_function_tolerance
    \/ traindata.changed_actions_number <= configs.changed_actions_tolerance
    \/ traindata.changed_actions_percentage.num
           * configs.changed_actions_percentage_tolerance.den
       <= configs.changed_actions_percentage_tolerance.num
           * traindata.changed_actions_percentage.den

\* C10: an iteration is started exactly by the check that finds none of the four
\* stop conditions to hold, and the statistics that check reads are those the
\* previous iteration left (those handed to its callback).
C10_IterationStartedIffNoStopCondition ==
    /\ [][/\ pc = "check" => (pc' = "prepare" <=> ~StopConditionHolds)
          /\ (pc # "prepare" /\ pc' = "prepare") => pc = "check"]_vars
    /\ [](pc = "check" /\ Len(callback_log) > 0
            => traindata = callback_log[Len(callback_log)])

\* a second iteration is being started, after a check on the statistics of the first
C10_Witness ==
    /\ pc = "prepare"
    /\ traindata.iteration_number = 1
    /\ Len(callback_log) = 1
    /\ ~StopConditionHolds

\* C11: for every validated configuration the statistics seeded at construction
\* make the first stop check fail, so a run that has ended has executed at least
\* one iteration.
C11_FirstIterationProceeds ==
    /\ (pc = "check" /\ traindata.iteration_number = 0) => ~check_stop_conditions
    /\ pc = "done" => Len(callback_log) >= 1

\* C12: training always terminates, the number of iterations executed never
\* exceeds max_iter, and the iteration numbers handed to the callback are
\* 1, 2, 3, ... in this order.
C12_TrainingTerminates ==
    /\ <>(pc = "done")
    /\ [](Len(callback_log) <= configs.max_iter)
    /\ [](\A i \in 1 .. Len(callback_log) : callback_log[i].iteration_number = i)
    /\ [](traindata.iteration_number <= configs.max_iter)

\* a run has ended after as many iterations as max_iter allows
C12_Witness ==
    /\ pc = "done"
    /\ Len(callback_log) = configs.max_iter
    /\ configs.max_iter = MaxIterBound

\* C13: the callback is invoked exactly once per completed iteration, after the
\* policy sweep of that iteration, and what it writes into the record it is
\* given does not change the statistics the next stop check reads.
C13_CallbackOncePerIteration ==
    /\ [][Len(callback_log') # Len(callback_log) =>
            /\ pc = "callback" /\ pc' = "check"
            /\ Len(callback_log') = Len(callback_log) + 1]_vars
    /\ [][(pc # "callback" /\ pc' = "callback") =>
            pc \in {"update_policy", "policy_reduce"}]_vars
    /\ [][pc = "callback" => traindata' = traindata]_vars
    /\ [](pc \in {"check", "prepare"} => Len(callback_log) = traindata.iteration_number)
    /\ [](pc = "callback" => Len(callback_log) + 1 = traindata.iteration_number)

\* a second iteration is being started although the callback of the first wrote
\* into its record values that would have stopped the run
C13_Witness ==
    /\ pc = "prepare"
    /\ Len(callback_log) = 1
    /\ callback_log[1].changed_actions_number = 0
    /\ traindata.changed_actions_number > 0

\* C14: the policy file is written exactly once, after the iteration loop has
\* exited, when is_dry_run is false, and is never written when is_dry_run is
\* true, in sequential and in parallel mode.
C14_PolicyWrittenOnceUnlessDryRun ==
    /\ [][policy_file' # policy_file =>
            /\ pc = "write" /\ pc' = "done"
            /\ check_stop_conditions
            /\ policy_file' = Append(policy_file, policy)]_vars
    /\ [](configs.is_dry_run => policy_file = <<>>)
    /\ [](pc # "done" => policy_file = <<>>)
    /\ []((pc = "done" /\ ~configs.is_dry_run) => Len(policy_file) = 1)

\* a dry run of several processes that has ended, after at least one iteration
C14_Witness ==
    /\ pc = "done"
    /\ configs.is_dry_run
    /\ W > 1
    /\ Len(callback_log) >= 1
    /\ policy_file = <<>>

\* C15: after each policy sweep changed_actions is the number of valid indices
\* whose policy entry after the sweep differs from its entry before the sweep,
\* in sequential mode and in parallel mode, where it is the sum of the counts
\* the workers stored in the reduction array; changed_actions_percentage is
\* changed_actions / space_size.
C15_ChangedActionsCounted ==
    LET changed == { k \in DOMAIN policy : policy[k] # policy_before[k] }
    IN  pc = "callback" =>
            /\ traindata.changed_actions_number = Cardinality(changed)
            /\ traindata.changed_actions_percentage =
                   [num |-> Cardinality(changed), den |-> valid_state_space.space_size]
            /\ W > 1 =>
                   \A p \in DOMAIN process :
                       partial_changed_actions[p] =
                           Cardinality({ k \in changed :
                                           /\ k >= process[p].start_index
                                           /\ k < process[p].end_index })

\* a parallel policy sweep has ended in which one worker changed more entries
\* than another, and some entry was left as it was
C15_Witness ==
    /\ pc = "callback"
    /\ W > 1
    /\ \E p, q \in DOMAIN process :
           partial_changed_actions[p] > partial_changed_actions[q]
    /\ \E k \in DOMAIN policy : policy[k] # policy_before[k]
    /\ \E k \in DOMAIN policy : policy[k] = policy_before[k]

\* C16: for every space_size S >= 0 and every number of workers W >= 2 the
\* intervals computed are W contiguous, pairwise disjoint half-open ranges that
\* start at 0, end at S and cover [0, S) exactly, each of size ceil(S/W) or
\* floor(S/W), the larger ranges being those of the lowest-numbered workers.
C16_IntervalsPartitionTheSpace ==
    (call.op = "get_processes_intervals" /\ call.returned) =>
        LET S == call.args.space_size
            n == call.args.processes_number
            r == call.result
            size(p) == r[p][2] - r[p][1]
        IN  /\ DOMAIN r = 1 .. n
            /\ r[1][1] = 0
            /\ r[n][2] = S
            /\ \A p \in 1 .. (n - 1) : r[p][2] = r[p + 1][1]
            /\ \A p \in 1 .. n : size(p) \in {S \div n, (S + n - 1) \div n}
            /\ \A p \in 1 .. (n - 1) : size(p) >= size(p + 1)
            /\ \A k \in 0 .. (S - 1) :
                   Cardinality({ p \in 1 .. n : r[p][1] <= k /\ k < r[p][2] }) = 1
            /\ \A p \in 1 .. n : r[p][1] >= 0 /\ r[p][2] <= S

\* a call has returned that left a remainder of more than one state to spread
C16_Witness ==
    /\ call.op = "get_processes_intervals" /\ call.returned
    /\ call.args.space_size > call.args.processes_number
    /\ call.args.space_size % call.args.processes_number > 1
    /\ call.result[1][2] - call.result[1][1] >
           call.result[call.args.processes_number][2]
               - call.result[call.args.processes_number][1]

\* C17: when there are more processes than valid states, construction succeeds
\* and prints a warning; the workers beyond the first space_size have empty
\* ranges, change no table, write 0 to their slots of the reduction arrays and
\* release the semaphore once per phase, so both barriers of every iteration
\* complete.
C17_ExtraWorkersTakePartInBarriers ==
    /\ []((Parallel /\ W > valid_state_space.space_size) =>
            /\ stdout # <<>> /\ stdout[1] = Line(WARNING, 0)
            /\ \A p \in Processes :
                   p >= valid_state_space.space_size =>
                       /\ process[p].start_index = process[p].end_index
                       /\ partial_values_sums[p] = 0
                       /\ max_differences[p] = 0
                       /\ partial_changed_actions[p] = 0)
    /\ [][(Parallel /\ W > valid_state_space.space_size) =>
            \A p \in Processes :
                p >= valid_state_space.space_size =>
                    /\ process'[p] # process[p] =>
                           /\ policy' = policy
                           /\ array_a' = array_a /\ array_b' = array_b
                    /\ (process[p].pc = "evaluate" /\ process'[p].pc # "evaluate") =>
                           /\ process'[p].pc = "value_release"
                           /\ process[p].value_sum = 0 /\ process[p].max_diff = 0
                    /\ (process[p].pc = "improve" /\ process'[p].pc # "improve") =>
                           /\ process'[p].pc = "policy_release"
                           /\ process[p].changed_actions = 0
                    /\ (process[p].pc \in {"value_release", "policy_release"}
                           /\ process'[p].pc \notin {process[p].pc, "terminated"}) =>
                           semaphore' = semaphore + 1]_vars
    /\ (Parallel /\ W > valid_state_space.space_size /\ pc = "value_acquire")
           ~> (pc = "value_clear")
    /\ (Parallel /\ W > valid_state_space.space_size /\ pc = "policy_acquire")
           ~> (pc = "policy_clear")

\* an iteration of a run with four valid states and more processes has ended:
\* the worker with the empty range waits for the next value sweep
C17_Witness ==
    /\ Parallel /\ W > valid_state_space.space_size
    /\ valid_state_space.space_size > 0
    /\ pc = "callback" /\ traindata.iteration_number >= 1
    /\ semaphore = 0
    /\ \E p \in Processes :
           /\ process[p].start_index = process[p].end_index
           /\ process[p].pc = "value_wait"

\* the half-open rectangle test
InsideRectangle(pos, ob) ==
    /\ ob.origin.x <= pos.x /\ pos.x < ob.origin.x + ob.extent.x
    /\ ob.origin.y <= pos.y /\ pos.y < ob.origin.y + ob.extent.y

\* the cell of number c of a grid of N columns, in row-major order
CellOf(c, N) == Vec2D(c % N, c \div N)

\* the joint state of packed index i on a grid of N columns and M rows
JointState(i, N, M) ==
    State(CellOf(i % (N * M), N), CellOf((i \div (N * M)) % (N * M), N),
          CellOf(i \div (N * M * N * M), N))

\* the packed indices up to last of the valid joint states: the target is not
\* on the opponent and no position is inside an obstacle
ValidIndices(last, N, M, obstacles) ==
    { i \in 0 .. last :
        /\ JointState(i, N, M).target_pos # JointState(i, N, M).opponent_pos
        /\ \A k \in 1 .. Len(obstacles) :
              \A pos \in {JointState(i, N, M).agent_pos, JointState(i, N, M).opponent_pos,
                          JointState(i, N, M).target_pos} :
                  ~InsideRectangle(pos, obstacles[k]) }

\* at every step of the enumeration of ValidStateSpace.__init__ the counter is
\* to_index of the enumerated state and the list holds, in increasing order,
\* the packed indices of the valid states enumerated so far
EnumerationAdmitsTheValidStates ==
    (call.op = "ValidStateSpace" /\ ~call.returned) =>
        LET N == call.args.map_size.x
            M == call.args.map_size.y
            acc == call.acc
        IN  /\ acc.more =>
                   /\ acc.state_index = to_index(acc.state, MapSize(N, M))
                   /\ acc.state = JointState(acc.state_index, N, M)
            /\ ~acc.more => acc.state_index = N * M * N * M * N * M - 1
            /\ \A k \in 1 .. (Len(acc.index_list) - 1) :
                   acc.index_list[k] < acc.index_list[k + 1]
            /\ { acc.index_list[k] : k \in 1 .. Len(acc.index_list) }
                   = ValidIndices(acc.state_index, N, M, call.args.obstacles)

\* the construction returned an array, which is the strictly increasing
\* sequence of the packed indices of the valid joint states
ArrayIsTheValidStates ==
    (call.op = "ValidStateSpace" /\ call.returned) =>
        LET N == call.args.map_size.x
            M == call.args.map_size.y
        IN  /\ DOMAIN call.acc.array = {"returns"}
            /\ DOMAIN call.acc.array.returns = 0 .. (call.acc.space_size - 1)
            /\ \A k \in 0 .. (call.acc.space_size - 2) :
                   call.acc.array.returns[k] < call.acc.array.returns[k + 1]
            /\ { call.acc.array.returns[k] : k \in 0 .. (call.acc.space_size - 1) }
                   = ValidIndices(N * M * N * M * N * M - 1, N, M, call.args.obstacles)

\* C18: for every map size and obstacle list the array built at construction is
\* the strictly increasing sequence of the packed indices of exactly the valid
\* joint states (the three positions in the grid, target # opponent, no position
\* inside an obstacle by the half-open rectangle test); at every step of the
\* enumeration the counter equals to_index of the enumerated state, and no valid
\* state is skipped, the first and the last packed index included.
C18_ArrayHoldsExactlyTheValidStates ==
    /\ EnumerationAdmitsTheValidStates
    /\ ArrayIsTheValidStates

\* C19: for every map and obstacle list that pass validation the element width
\* chosen for the array is the smallest of 1, 2, 4 or 8 bytes that holds the
\* largest packed index stored, so the construction succeeds and every packed
\* index is stored as it is.
C19_WidthHoldsLargestIndex ==
    (call.op = "ValidStateSpace" /\ call.returned /\ call.acc.space_size > 0) =>
        LET largest == call.acc.index_list[call.acc.space_size]
        IN  /\ call.acc.type \in {1, 2, 4, 8}
            /\ largest < Pow(2, 8 * call.acc.type)
            /\ \A w \in {1, 2} : w < call.acc.type => largest >= Pow(2, 8 * w)
            /\ DOMAIN call.acc.array = {"returns"}
            /\ \A k \in 1 .. call.acc.space_size :
                   call.acc.array.returns[k - 1] = call.acc.index_list[k]

\* C20: get_valid_index(S) returns the position k with arr[k] = pack(S) for every
\* valid state S, and when the packed index of S is not found by the binary
\* search the call fails with a NotValid error instead of returning a value.
C20_LookupReturnsPositionOrFails ==
    (call.op = "get_valid_index" /\ call.returned) =>
        LET ms == MapSize(call.args.map_size.x, call.args.map_size.y)
            arr == ValidStateSpaceArray(call.args.map_size, call.args.obstacles)
            packed == to_index(call.args.state, ms)
        IN  IF \E k \in DOMAIN arr : arr[k] = packed
            THEN /\ DOMAIN call.result = {"returns"}
                 /\ call.result.returns \in DOMAIN arr
                 /\ arr[call.result.returns] = packed
            ELSE call.result = [raises |-> "NotValid"]

\* C21: after any sequence of get_valid_index and is_state_outside_obstacles
\* calls every entry (i -> k) of the valid cache has arr[k] = i, every key of the
\* not-valid cache is a packed index absent from the array, and no packed index
\* is a key of both caches; the entries added by neighbour loading at the first
\* and at the last position of the array are included.
C21_CachesAgreeWithArray ==
    call.op = "lookups" =>
        /\ \A n \in 1 .. Len(call.valid_cache) :
               /\ call.valid_cache[n][2] \in DOMAIN call.array
               /\ call.array[call.valid_cache[n][2]] = call.valid_cache[n][1]
        /\ \A n \in 1 .. Len(call.not_valid_cache) :
               \A k \in DOMAIN call.array :
                   call.array[k] # call.not_valid_cache[n][1]
        /\ \A n \in 1 .. Len(call.valid_cache) :
               \A j \in 1 .. Len(call.not_valid_cache) :
                   call.valid_cache[n][1] # call.not_valid_cache[j][1]

\* C22: for every joint state S with all components inside the N x M grid
\* from_index(to_index(S)) = S, and for every i in [0, N^3*M^3)
\* to_index(from_index(i)) = i, with to_index(S) =
\* a.x + a.y*N + o.x*N*M + o.y*N^2*M + t.x*N^2*M^2 + t.y*N^3*M^2.
C22_IndexRoundTrip ==
    (call.op = "State" /\ call.todo # <<"to_index", "from_index">>) =>
        LET N == call.map_size.N
            M == call.map_size.M
            idx(S) == S.agent_pos.x + S.agent_pos.y * N
                      + S.opponent_pos.x * N * M + S.opponent_pos.y * N * N * M
                      + S.target_pos.x * N * N * M * M
                      + S.target_pos.y * N * N * N * M * M
            inside(pos) == pos.x \in 0 .. (N - 1) /\ pos.y \in 0 .. (M - 1)
        IN  /\ call.todo = <<"from_index">> =>
                   /\ call.index = idx(call.given)
                   /\ call.index \in 0 .. (N * N * N * M * M * M - 1)
            /\ (call.todo = <<>> /\ call.index = -1) => call.state = call.given
            /\ call.todo = <<"to_index">> =>
                   /\ inside(call.state.agent_pos)
                   /\ inside(call.state.opponent_pos)
                   /\ inside(call.state.target_pos)
            /\ (call.todo = <<>> /\ call.index # -1) => call.index = call.given

\* on a grid of two columns and three rows a state with all three positions in
\* the last row and the last column has gone to its index and back
C22_Witness ==
    /\ call.op = "State" /\ call.todo = <<>>
    /\ call.map_size.N = 2 /\ call.map_size.M = 3
    /\ call.state = State(Vec2D(1, 2), Vec2D(1, 2), Vec2D(1, 2))
    /\ call.given = call.state

\* C23: in every tick of a game the agent moves first, then the target, then
\* the opponent, and nobody moves once a result is set; the check after the
\* move of the agent sets SUCCESS when the agent is on the target and FAIL
\* when it is on the opponent, and then the tick ends without a move of the
\* target or of the opponent; the move of the target leaves the result alone
\* and the check after the move of the opponent decides it the same way; a
\* tick that ends with no result has moved all three; start() returns the
\* result, which is SUCCESS or FAIL.
C23_TickOrderAndResult ==
    /\ [](call.op = "game" /\ call.pc = "returned"
             => call.returned = call.res /\ call.returned \in {SUCCESS, FAIL})
    /\ [][call.op = "game" /\ call.pc \notin {"init", "raised"}
             /\ call'.moved # call.moved /\ call'.moved # <<>>
          => /\ call.res = WAITING_FOR_RESULT
             /\ Len(call.moved) < 3
             /\ call'.moved =
                   Append(call.moved, <<"agent", "target", "opponent">>[Len(call.moved) + 1])
             /\ call'.res =
                   IF Len(call.moved) = 1 THEN WAITING_FOR_RESULT
                   ELSE IF call'.state.agent_pos = call'.state.target_pos THEN SUCCESS
                   ELSE IF call'.state.agent_pos = call'.state.opponent_pos THEN FAIL
                   ELSE WAITING_FOR_RESULT]_vars
    /\ [][call.op = "game" /\ call.pc \notin {"init", "raised"}
             /\ call'.moved = call.moved
          => call'.res = call.res]_vars
    /\ [][call.op = "game" /\ call.pc \notin {"init", "raised"}
             /\ call'.moved # call.moved /\ call'.moved = <<>>
          => call.res = WAITING_FOR_RESULT /\ Len(call.moved) = 3]_vars

\* a game has returned SUCCESS after a tick in which only the agent moved
C23_Witness ==
    /\ call.op = "game" /\ call.pc = "returned"
    /\ call.returned = SUCCESS
    /\ call.moved = <<"agent">>
    /\ call.state.agent_pos = call.state.target_pos

\* C24: in a game built from a validated start the three positions are
\* inside the grid and outside every obstacle and the target is not on the
\* opponent, before and after every move; whatever action the entity whose
\* turn it is does, the move is kept when the state it leads to is such a
\* state (the agent on the target or on the opponent included) and is undone,
\* leaving the state as it was, when it is not.
C24_MovesKeepTheStateValid ==
    call.op = "game" /\ call.pc \notin {"init", "raised"}
    => LET allowed(state) ==
               /\ \A pos \in {state.agent_pos, state.target_pos, state.opponent_pos} :
                     /\ pos.x \in 0 .. (call.configs.map_size.x - 1)
                     /\ pos.y \in 0 .. (call.configs.map_size.y - 1)
                     /\ \A i \in 1 .. Len(call.configs.obstacles) :
                           ~is_inside(call.configs.obstacles[i], pos)
               /\ state.target_pos # state.opponent_pos
       IN  /\ allowed(call.state)
           /\ \A e \in {<<"agent", "agent_pos">>, <<"target", "target_pos">>,
                        <<"opponent", "opponent_pos">>} :
                 call.pc = e[1]
                 => \A action \in Actions :
                       LET moved == [call.state EXCEPT ![e[2]] = move(@, action)]
                       IN  MovingEntity_move(call, e[2], action).state =
                               IF allowed(moved) THEN moved ELSE call.state

\* a tick in which the move of the agent was undone, the target stepped onto
\* the agent and the move of the opponent was undone
C24_Witness ==
    /\ call.op = "game" /\ call.pc = "start"
    /\ call.moved = <<"agent", "target", "opponent">>
    /\ call.state.agent_pos = call.gamedata.state.agent_pos
    /\ call.state.target_pos # call.gamedata.state.target_pos
    /\ call.state.target_pos = call.state.agent_pos
    /\ call.state.opponent_pos = call.gamedata.state.opponent_pos

\* C25: a game whose configuration names no policy file, and is valid
\* otherwise, is constructed: its agent follows the uniform policy and a
\* warning has been printed.
C25_NoPolicyFileFallsBack ==
    /\ call.op = "game" /\ call.pc # "init"
    /\ call.configs.policy_file_path = ""
    /\ ~(call.pc = "raised" /\ call.raises \in {"ValueError", "OverflowError"})
    => /\ call.pc # "raised"
       /\ call.agent_policy = "UniformPolicy"
       /\ \E n \in 1 .. Len(stdout) : stdout[n].text # ""

\* C26: a TrainManager is built only from a discount factor of the interval
\* (0, 1]: a configuration whose discount factor is 0 or less, or above 1, is
\* rejected before any iteration runs.
C26_DiscountOutsideHalfOpenIntervalRejected ==
    call.op = "none" => configs.discount_factor > 0 /\ configs.discount_factor <= GDen

\* C27: a TrainManager is built only for a grid whose dimensions are both
\* positive and whose valid state space has at least 3 states.
C27_SmallStateSpaceRejected ==
    call.op = "none"
    => /\ configs.map_size.x > 0 /\ configs.map_size.y > 0
       /\ valid_state_space.space_size >= 3

\* C28: the construction of a discrete transition density from four
\* probabilities of which one is negative or whose sum is not 1 raises
\* ValueError; a density that is constructed gives, for every chosen action,
\* four probabilities that are not negative and sum to 1, the k-th of the
\* four given probabilities being that of the action k quarter turns to the
\* right of the chosen one.
C28_DensityIsAProbability ==
    call.op = "DiscreteDistributionMarkovTransitionDensity" /\ call.returned
    => LET given == call.args
       IN  /\ (\/ \E k \in 0 .. 3 : given[k] < 0
               \/ given[0] + given[1] + given[2] + given[3] # PDen)
              => "raises" \in DOMAIN call /\ call.raises = "ValueError"
           /\ "returns" \in DOMAIN call
              => \A chosen \in Actions :
                    /\ \A a \in Actions : call.returns[chosen][a] >= 0
                    /\ call.returns[chosen][UP] + call.returns[chosen][RIGHT]
                       + call.returns[chosen][DOWN] + call.returns[chosen][LEFT] = PDen
                    /\ \A k \in 0 .. 3 :
                          \E a \in Actions :
                              /\ a = IF chosen + k < MAX_EXCLUSIVE THEN chosen + k
                                     ELSE chosen + k - MAX_EXCLUSIVE
                              /\ call.returns[chosen][a] = given[k]

\* a density has been constructed from probabilities that tell the chosen
\* action from its opposite and the right of it from the left
C28_Witness ==
    /\ call.op = "DiscreteDistributionMarkovTransitionDensity" /\ call.returned
    /\ "returns" \in DOMAIN call
    /\ call.args[0] # call.args[2] /\ call.args[1] # call.args[3]
    /\ call.returns[LEFT][UP] = call.args[1]

\* C29: whatever setter calls and file directives a configuration has seen, a
\* field whose setter has been called is frozen and holds the value of the
\* last call; a field whose setter has not been called holds the value of the
\* last file directive for it, or its default when there is none, the
\* obstacle list holding the obstacles of all the directives in their order.
C29_CallerThenFileThenDefault ==
    call.op = "TrainConfigs"
    => \A f \in {"discount_factor", "max_iter", "obstacles"} :
          IF call.set[f] # <<>>
          THEN call[f].frozen /\ call[f].value = call.set[f][Len(call.set[f])]
          ELSE /\ ~call[f].frozen
               /\ call[f].value =
                     IF f = "obstacles" THEN Value("list", call.directives[f])
                     ELSE IF call.directives[f] # <<>>
                          THEN call.directives[f][Len(call.directives[f])]
                          ELSE IF f = "max_iter" THEN Value("int", 100)
                               ELSE Value("float", 2)

\* C30: under the sparse reward with a discount factor between 0 and 1 the
\* max_value_diff handed to the callback for an iteration is at most that of
\* the iteration before it, from the second iteration on, and the run ends
\* after at most max_iter iterations.
C30_ValueDifferenceNeverGrows ==
    /\ [](configs.reward = "sparse"
             /\ configs.discount_factor > 0 /\ configs.discount_factor < GDen
          => \A n \in 2 .. Len(callback_log) :
                callback_log[n].max_value_diff <= callback_log[n - 1].max_value_diff)
    /\ <>(pc = "done" /\ Len(callback_log) <= configs.max_iter)

\* a run of three iterations whose value difference went down twice
C30_Witness ==
    /\ configs.reward = "sparse"
    /\ pc = "done"
    /\ Len(callback_log) >= 3
    /\ callback_log[3].max_value_diff < callback_log[2].max_value_diff
    /\ callback_log[2].max_value_diff < callback_log[1].max_value_diff

\* the discounted sum a value sweep adds to the reward: the successors weighted
\* as the sweep of the mode weighs them (the parallel sweep calls the density
\* with the action first)
DiscountedSum(k, chosen, V, parallel) ==
    (configs.discount_factor
        * SumOver([a \in Actions |->
              (IF parallel THEN markov_transition_density(a, chosen)
               ELSE markov_transition_density(chosen, a)) * V[NextIndex(k, a)]]))
    \div (PDen * GDen)

\* C31: whatever the transition density, the reward term of the value a value
\* sweep writes for the valid index k is the reward of going from the k-th
\* valid state to that state with the agent moved by the action of the policy,
\* never the reward of a successor an earlier state or action left in the
\* scratch buffer.
C31_RewardReadsTheSuccessorOfTheState ==
    /\ (~Parallel /\ pc = "update_policy") =>
           \A k \in DOMAIN policy :
               old_values[k] - DiscountedSum(k, policy[k], new_values, FALSE)
                   = reward(valid_state(k), AgentMoved(valid_state(k), policy[k]))
    /\ (Parallel /\ pc = "swap") =>
           \A k \in DOMAIN policy :
               next_array[k] - DiscountedSum(k, policy[k], current_array, TRUE)
                   = reward(valid_state(k), AgentMoved(valid_state(k), policy[k]))

\* the rewards the return statement can add for the k-th valid state: that of
\* the successor of the state, or that of a state left in the scratch buffer
RewardsOf(k) ==
    { reward(valid_state(k), AgentMoved(valid_state(j), a)) :
          j \in DOMAIN policy, a \in Actions }
    \cup { reward(valid_state(k), State0) }

\* C32: a value sweep writes the next value of every valid index once, in the
\* order of the indices (in parallel mode each worker over its own range, and
\* the ranges cover the valid indices), and changes no current value; so when
\* the sweep is over every next value is a reward of its state plus the
\* discounted sum over the current values, and none is left from an earlier
\* sweep.
C32_SweepWritesEveryNextValueOnce ==
    /\ []((~Parallel /\ pc = "update_policy") =>
             \A k \in DOMAIN policy :
                 old_values[k] - DiscountedSum(k, policy[k], new_values, FALSE)
                     \in RewardsOf(k))
    /\ []((Parallel /\ pc = "swap") =>
             \A k \in DOMAIN policy :
                 /\ \E p \in Processes :
                        /\ process[p].start_index <= k /\ k < process[p].end_index
                        /\ process[p].index = process[p].end_index
                 /\ next_array[k] - DiscountedSum(k, policy[k], current_array, TRUE)
                        \in RewardsOf(k))
    /\ [][pc = "update_value_function" => new_values' = old_values]_vars
    /\ [][Parallel =>
            \A p \in Processes :
                /\ (process[p].pc # "evaluate" /\ process'[p].pc = "evaluate")
                       => process'[p].index = process[p].start_index
                /\ (process[p].pc = "evaluate" /\ process'[p].pc # "evaluate")
                       => process[p].index = process[p].end_index
                /\ (InValueSweep(p) /\ process'[p].index # process[p].index) =>
                       /\ process'[p].index = process[p].index + 1
                       /\ Written(array_a, array_a') \cup Written(array_b, array_b')
                              \subseteq {process[p].index}
                       /\ IF swapped THEN array_b' = array_b ELSE array_a' = array_a
                       /\ swapped' = swapped]_vars

\* the second value sweep of a parallel run is over, the buffers not yet
\* swapped: every next value differs from the value of two sweeps before
C32_Witness ==
    /\ Parallel /\ pc = "swap"
    /\ traindata.iteration_number = 2
    /\ \E k \in DOMAIN policy : next_array[k] # current_array[k]
    /\ \A k \in DOMAIN policy : next_array[k] # 0

\* the workers that are waiting for the event pc_wait names
WaitingAt(pc_wait) == { p \in Processes : process[p].pc = pc_wait }

\* C33: in parallel mode the semaphore counts between 0 and W and is 0 when
\* the coordinator sets value_event or policy_event; in the value phase the
\* releases not yet acquired and the acquires done add up to the workers that
\* have finished their value sweep and wait for policy_event, and likewise in
\* the policy phase; a worker passes an event's wait only while the
\* coordinator is in the acquire loop of that event, so when the W-th acquire
\* returns every worker has finished the phase.
C33_SemaphoreCountsTheWorkersOfThePhase ==
    /\ [](Parallel =>
            /\ 0 <= semaphore /\ semaphore <= W
            /\ pc \in {"value_set", "policy_set"} => semaphore = 0
            /\ pc = "value_acquire" =>
                   semaphore + loop_count = Cardinality(WaitingAt("policy_wait"))
            /\ pc = "policy_acquire" =>
                   semaphore + loop_count = Cardinality(WaitingAt("value_wait"))
            /\ pc \in {"value_clear", "swap", "value_reduce", "policy_set"} =>
                   WaitingAt("policy_wait") = Processes
            /\ pc \in {"policy_clear", "policy_reduce"} =>
                   WaitingAt("value_wait") = Processes)
    /\ [][Parallel =>
            /\ semaphore' > semaphore =>
                   /\ semaphore' = semaphore + 1
                   /\ \E p \in Processes :
                          /\ process[p].pc \in {"value_release", "policy_release"}
                          /\ process'[p].pc \in {"policy_wait", "value_wait"}
                          /\ \A q \in Processes \ {p} : process'[q] = process[q]
            /\ \A p \in Processes :
                   /\ (process[p].pc = "value_wait" /\ process'[p].pc = "evaluate")
                          => pc = "value_acquire" /\ value_event /\ ~policy_event
                   /\ (process[p].pc = "policy_wait" /\ process'[p].pc = "improve")
                          => pc = "policy_acquire" /\ policy_event /\ ~value_event]_vars

\* every worker has released the semaphore before the coordinator's first
\* acquire of the policy phase
C33_Witness ==
    /\ Parallel
    /\ pc = "policy_acquire" /\ loop_count = 0
    /\ semaphore = W
    /\ traindata.iteration_number = 2

\* the sum of f over the indices from to to - 1, and the greatest of 0 and its
\* entries there
IntervalSum(f, from, to) ==
    LET sum[k \in from .. to] == IF k = from THEN 0 ELSE sum[k - 1] + f[k - 1]
    IN  sum[to]

IntervalMax(f, from, to) ==
    LET max[k \in from .. to] ==
            IF k = from THEN 0
            ELSE IF f[k - 1] > max[k - 1] THEN f[k - 1] ELSE max[k - 1]
    IN  max[to]

\* C34: when the coordinator reads partial_values_sums and max_differences no
\* worker is in its value sweep and the slots of every worker hold the sum of
\* the values it wrote in the sweep just finished and the greatest change
\* among them; when it reads partial_changed_actions no worker is in its
\* policy sweep and the slot of every worker holds the number of actions of
\* its range the sweep just finished changed.
C34_ReductionSlotsAreOfTheCurrentSweep ==
    Parallel =>
        /\ pc = "value_reduce" =>
               \A p \in Processes :
                   /\ process[p].pc = "policy_wait"
                   /\ partial_values_sums[p] =
                          IntervalSum(current_array, process[p].start_index,
                                      process[p].end_index)
                   /\ max_differences[p] =
                          IntervalMax([k \in DOMAIN policy |->
                                          Abs(current_array[k] - next_array[k])],
                                      process[p].start_index, process[p].end_index)
        /\ pc = "policy_reduce" =>
               \A p \in Processes :
                   /\ process[p].pc = "value_wait"
                   /\ partial_changed_actions[p] =
                          Cardinality({ k \in process[p].start_index
                                                .. (process[p].end_index - 1) :
                                          policy[k] # policy_before[k] })

\* the coordinator is about to read the slots of the second iteration: two
\* workers wrote different sums, and the policy sweep before changed actions
C34_Witness ==
    /\ Parallel /\ pc = "value_reduce"
    /\ traindata.iteration_number = 2
    /\ \E p, q \in Processes :
          /\ partial_values_sums[p] # partial_values_sums[q]
          /\ max_differences[p] > 0
          /\ partial_changed_actions[q] > 0

\* the packed index of the state is an entry of the array
InArray(state) ==
    \E i \in DOMAIN valid_state_space.array :
        valid_state_space.array[i] = to_index(state, valid_state_space.map_size)

\* the agent of the state is in the grid and outside every obstacle
AgentIsFree(state) ==
    /\ is_inside([origin |-> Vec2D(0, 0), extent |-> configs.map_size], state.agent_pos)
    /\ \A i \in 1 .. Len(configs.obstacles) :
          ~is_inside(configs.obstacles[i], state.agent_pos)

\* C35: in a training run every state the value sweep and the policy sweep
\* hand to get_valid_index, in both modes, has its packed index in the array,
\* so that the lookup returns its position and not -1, and the policy sweep
\* takes an action as known to be valid only when it leaves the agent in the
\* grid and outside every obstacle; in a game the state the agent's policy
\* looks up on every tick is in the array.
C35_LookupsNeverMiss ==
    /\ \A p \in DOMAIN scratch :
          \A l \in scratch[p].looked_up :
              /\ InArray(l.state)
              /\ l.returned # -1
              /\ l.known => AgentIsFree(l.state)
    /\ (call.op = "game" /\ call.pc = "agent") =>
           /\ \E k \in DOMAIN call.array :
                  call.array[k] = to_index(call.state, call.map_size)
           /\ get_valid_index_result(call, to_index(call.state, call.map_size)) # -1

\* the key is in the cache
HasKey(d, key) == \E n \in 1 .. Len(d) : d[n][1] = key

\* C36: whatever the caches hold after the calls made so far, a call of
\* get_valid_index or of is_state_outside_obstacles on a state of the grid
\* answers as a binary search of the array answers for the packed index of
\* that state, and a call answered from a cache leaves both caches as they were.
C36_LookupsAnswerAsTheSearch ==
    call.op = "lookups" =>
        \A i \in 0 .. (call.map_size.N3M3 - 1) :
            \A index \in {to_index(from_index(i, call.map_size), call.map_size)} :
            \A r \in {binary_search(call.array, index)} :
                /\ get_valid_index_result(call, index) =
                       (IF r.is_valid THEN r.valid_index ELSE -1)
                /\ is_state_outside_obstacles_result(call, index) = r.is_valid
                /\ HasKey(call.valid_cache, index) =>
                       /\ get_valid_index_cached(call, index) = call
                       /\ is_state_outside_obstacles_cached(call, index) = call
                /\ HasKey(call.not_valid_cache, index) =>
                       is_state_outside_obstacles_cached(call, index) = call

\* C37: after every call of get_valid_index or is_state_outside_obstacles the
\* valid cache and the not-valid cache each hold at most 3 * N entries, N the
\* width of the grid.
C37_CachesHoldAtMostThreeN ==
    call.op = "lookups" =>
        /\ Len(call.valid_cache) <= 3 * call.map_size.N
        /\ Len(call.not_valid_cache) <= 3 * call.map_size.N

\* after the last call of a sequence the valid cache is full and the not-valid
\* cache, trimmed by that call, is one entry short of it
C37_Witness ==
    /\ call.op = "lookups" /\ call.lookups = call.max_lookups
    /\ Len(call.valid_cache) = 3 * call.map_size.N
    /\ Len(call.not_valid_cache) = 3 * call.map_size.N - 1

\* the step from the cache d to the cache e evicts a key only when e is left
\* full, that is when the size had gone beyond max_cache_length
EvictsOnlyBeyond(d, e, max_cache_length) ==
    (\E n \in 1 .. Len(d) : ~HasKey(e, d[n][1])) => Len(e) = max_cache_length

\* the keys of d that the step keeps are the youngest ones, and they open e
\* in the order they had in d
EvictsOldestFirst(d, e) ==
    \E j \in 1 .. (Len(d) + 1) :
        /\ \A n \in 1 .. (j - 1) : ~HasKey(e, d[n][1])
        /\ Len(e) >= Len(d) - j + 1
        /\ \A n \in j .. Len(d) : e[n - j + 1][1] = d[n][1]

\* C38: a call evicts an entry of a cache only when the size of that cache
\* has gone beyond 3 * N; the entries evicted are those whose keys were
\* inserted first, and an entry whose key is assigned again or hit keeps its
\* place in the order.
C38_EvictionOldestFirstBeyondThreeN ==
    [][call.op = "lookups" =>
          /\ EvictsOnlyBeyond(call.valid_cache, call'.valid_cache,
                              3 * call.map_size.N)
          /\ EvictsOnlyBeyond(call.not_valid_cache, call'.not_valid_cache,
                              3 * call.map_size.N)
          /\ EvictsOldestFirst(call.valid_cache, call'.valid_cache)
          /\ EvictsOldestFirst(call.not_valid_cache, call'.not_valid_cache)]_vars

\* C39: for every strictly increasing array and every query the binary search
\* returns (true, k) with array[k] the query when the query is in the array,
\* and otherwise (false, k) with k the greatest position whose entry is below
\* the query, or -1 when no entry is below it, as for the empty array.
C39_BinarySearchFindsOrBrackets ==
    (call.op = "binary_search" /\ call.returned) =>
        \A r \in {call.result.returns} :
            IF \E k \in DOMAIN call.args.array :
                   call.args.array[k] = call.args.state_index
            THEN /\ r.is_valid
                 /\ r.valid_index \in DOMAIN call.args.array
                 /\ call.args.array[r.valid_index] = call.args.state_index
            ELSE /\ ~r.is_valid
                 /\ r.valid_index \in -1 .. (space_size_of(call.args.array) - 1)
                 /\ \A k \in DOMAIN call.args.array :
                        call.args.array[k] < call.args.state_index <=> k <= r.valid_index

\* a search that missed between two entries of an array with gaps: the
\* position returned is neither the first nor the last
C39_Witness ==
    /\ call.op = "binary_search" /\ call.returned
    /\ ~call.result.returns.is_valid
    /\ call.result.returns.valid_index > 0
    /\ call.result.returns.valid_index < space_size_of(call.args.array) - 1
    /\ call.args.array[call.result.returns.valid_index] + 1 < call.args.state_index

=============================================================================
